---- MODULE Spec2Model ----
(***************************************************************************)
(* Model of shmTypes.hpp: the offset pointer (self, self-relocation and    *)
(* segment anchors), the lock-free linear arena allocator with its STL     *)
(* adapter, and the named shared memory segment (POSIX and WIN32).         *)
(*                                                                         *)
(* Addresses are unsigned machine words of WordBits bits; nullptr is 0.    *)
(* Offsets stored in an offset pointer have OffBits bits.  All arithmetic  *)
(* of the source on uintptr_t / size_t is reduced modulo 2^WordBits.       *)
(***************************************************************************)
EXTENDS Integers, Naturals, Sequences, FiniteSets, TLC

\* ------------------------------------------------------------------ bounds
WordBits   == 6      \* width of uintptr_t / size_t in the model
OffBits    == 4      \* width of the offset type OffsetT (narrower than a word)
MaxCap     == 6      \* arena capacity in bytes
MaxSize    == 3      \* largest ordinary request size
MaxOps     == 3      \* allocation calls per arena epoch
NumThreads == 2      \* concurrent allocating threads
RegN       == 3      \* nodes in a region of linked nodes
MaxNameLen == 4      \* longest name handed to the segment constructor
PollCap    == 2      \* rounds of the size poll of an open (200 in the source)
MaxObjs    == 2      \* shared memory objects created in a run

Word   == 2 ^ WordBits
OffMod == 2 ^ OffBits


Threads == 1 .. NumThreads
NULL    == 0

\* (segment_base, arena_start) pairs handed to the constructor: the two
\* argument form (start, start) and an arena at a non-zero, odd offset
\* inside its segment.  All addresses lie in the lower half of the address
\* space, as user-space mappings do.
ArenaLayouts == { <<8, 8>>, <<8, 11>> }

\* request sizes: zero, small sizes, exactly the capacity, more than it
Sizes  == { 0, 1, 2, MaxSize, MaxCap, MaxCap + 1 }
\* alignments: zero, powers of two, non powers of two, and the largest
\* power of two and the largest value of a word
Aligns == { 0, 1, 2, 3, 4, 5, 2 ^ (WordBits - 1), Word - 1 }

\* the requests of the concurrent runs
SizesMT  == { 0, 1, MaxSize }
AlignsMT == { 1, 3, 4 }

\* ------------------------------------------------- machine word arithmetic
\* static_cast<std::uintptr_t>(x): reduce to the word width
U(x) == x % Word

\* static_cast<std::intptr_t>(x) of a word
ToSigned(x) == IF x >= Word \div 2 THEN x - Word ELSE x

RECURSIVE BitAndN(_, _, _)
BitAndN(x, y, k) ==
    IF k = 0 THEN 0
    ELSE (x % 2) * (y % 2) + 2 * BitAndN(x \div 2, y \div 2, k - 1)

\* x & y on words
BitAnd(x, y) == BitAndN(x, y, WordBits)

\* ~x on words
BitNot(x) == (Word - 1) - x

VARIABLES
    base_,        \* segment_base<Tag>::base_, the tag's base cell
    arena_addr_,  \* linear_allocator::arena_addr_ (== arena_)
    capacity_,    \* linear_allocator::capacity_
    cursor_,      \* linear_allocator::cursor_
    mem,          \* the arena bytes, indexed by offset 0 .. capacity_-1
    pc,           \* per thread: "idle" or "loop" (inside alloc's CAS loop)
    fn_,          \* per thread: the entry point that called alloc
    n_,           \* per thread: alloc's parameter n
    al_,          \* per thread: alloc's parameter alignment, as passed
    cur_,         \* per thread: alloc's local cur
    rpc,          \* position of the thread running secure_reset
    u_,           \* secure_reset's local u
    hist,         \* blocks handed out since construction or the last reset
    last,         \* the most recently returned call and what it returned
    ops,          \* allocation calls started since construction or reset
    rewound,      \* whether reset or secure_reset has stored the cursor
    ptr,          \* the offset_ptr objects: anchor, signedness, address, off_plus1_
    plast,        \* the most recent operation on an offset_ptr
    reg,          \* a byte region holding nodes linked by offset pointers
    view,         \* the mappings of the segment and the one in use
    vec,          \* the vector object stored in the segment
    plat,         \* the platform the segment class is built for
    name,         \* the OS namespace entry of the segment name
    objs,         \* the shared memory objects of the OS
    sp,           \* per process: its segment constructor call
    arg,          \* the name handed to the segment constructor and its fate
    base_B,       \* segment_base<TagB>::base_, the base cell of a second tag
    first,        \* an arena of the tag constructed earlier and still alive
    rmres,        \* what the calls of segment::remove returned
    areq,         \* the type and count of the latest allocate<T>(count) call
    nulls,        \* the requests (n, alignment) that alloc answered with
                  \* null, each with used() at that moment
    nap           \* the size poll's attempt counter and its latest sleep

avars == << base_, arena_addr_, capacity_, cursor_, mem, pc, fn_, n_, al_,
            cur_, rpc, u_, hist, last, ops, rewound >>

pvars == << ptr, plast >>

rvars == << reg, view, vec >>

svars == << plat, name, objs, sp >>

xvars == << arg, base_B, first, rmres, areq, nulls, nap >>

vars == << avars, pvars, rvars, svars, xvars >>

NoCall == [ fn |-> "none", n |-> 0, al |-> 0, cur |-> 0,
            ret |-> NULL, h |-> 0, used |-> 0, before |-> 0 ]

\* ------------------------------------------------------------ offset_ptr
\* detail::narrow_checked<To>(v) in a non-debug build: static_cast<To>(v)
Narrow(v, sgn) ==
    LET m == v % OffMod IN
    IF sgn /\ m >= OffMod \div 2 THEN m - OffMod ELSE m

\* the segment anchor measured from the pointer's own address
AnchorBase_Self(kind, self, tagbase) == self

\* Anchor::base(self): the pointer's own address for the self-relative
\* anchors, the tag's base cell for the segment anchor
AnchorBase(kind, self, tagbase) ==
    IF kind = "segment" THEN tagbase ELSE self

\* a value that does not fit stored as the largest value of the type
PtrSet_Clamp(b, p, sgn) ==
    IF p = NULL THEN 0
    ELSE LET diff == ToSigned(U(ToSigned(U(p)) - ToSigned(U(b))))
             hi   == IF sgn THEN OffMod \div 2 - 1 ELSE OffMod - 1
             lo   == IF sgn THEN -(OffMod \div 2) ELSE 0
         IN  IF diff + 1 > hi THEN hi
             ELSE IF diff + 1 < lo THEN lo
             ELSE diff + 1

\* the difference stored without the bias of one
PtrSet_NoBias(b, p, sgn) ==
    IF p = NULL THEN 0
    ELSE Narrow(ToSigned(U(ToSigned(U(p)) - ToSigned(U(b)))), sgn)

\* offset_ptr::set(p) with anchor base b: the value stored in off_plus1_
PtrSet(b, p, sgn) ==
    IF p = NULL THEN 0
    ELSE LET diff == ToSigned(U(ToSigned(U(p)) - ToSigned(U(b))))
         IN  Narrow(diff + 1, sgn)

\* a decode without the null branch
PtrGet_NoNull(b, s, sgn) ==
    IF sgn THEN LET off == s - 1      IN U(b + U(off))
           ELSE LET off == U(s - 1)   IN U(b + off)

\* offset_ptr::get() with anchor base b and stored value s
PtrGet(b, s, sgn) ==
    IF s = 0 THEN NULL
    ELSE IF sgn THEN LET off == s - 1      IN U(b + U(off))
                ELSE LET off == U(s - 1)   IN U(b + off)

\* offset_ptr::operator bool
PtrBool(s) == s # 0

\* whether (t - b) + 1 is a value of the offset type other than 0
Fits(b, t, sgn) ==
    LET e == (t - b) + 1 IN
    /\ e # 0
    /\ IF sgn THEN -(OffMod \div 2) <= e /\ e < OffMod \div 2
              ELSE 0 < e /\ e < OffMod

\* the offset_ptr objects of the model and the addresses they may sit at
PtrIds   == { 1, 2 }
PtrAddrs == << { 4, 20 }, { 5, 22 } >>
PtrHome  == << 4, 5 >>

\* raw pointers handed to offset pointers: null, near and far addresses
Targets == { NULL, 6, 14, OffMod, OffMod + 11 }

Kinds == { "self", "self_reloc", "segment" }

\* offset_ptr() / offset_ptr(nullptr) of anchor kind k, offset signedness
\* sgn, at address a.  The field ok records that the stored value encodes
\* null or a representable target against the base the pointer decodes with,
\* the field t the raw pointer the pointer was last given, directly or
\* through the pointer it was copied from.
DefaultPtr(k, sgn, a) ==
    [ kind |-> k, sgn |-> sgn, addr |-> a, s |-> 0, ok |-> TRUE, t |-> NULL ]

NoOp == [ op |-> "none", dst |-> 0, src |-> 0, p |-> NULL ]

\* p.get()
Get(p) == PtrGet(AnchorBase(p.kind, p.addr, base_), p.s, p.sgn)

\* p = nullptr, offset_ptr(nullptr), offset_ptr()
AssignNull(i) ==
    /\ ptr' = [ptr EXCEPT ![i].s = 0, ![i].ok = TRUE, ![i].t = NULL]
    /\ plast' = [ op |-> "null", dst |-> i, src |-> 0, p |-> NULL ]
    /\ UNCHANGED << avars, rvars, svars, xvars >>

\* p = raw, offset_ptr(raw)
AssignRaw(i, t) ==
    LET b == AnchorBase(ptr[i].kind, ptr[i].addr, base_) IN
    /\ ptr' = [ptr EXCEPT ![i].s = PtrSet(b, t, ptr[i].sgn),
                          ![i].ok = (t = NULL \/ Fits(b, t, ptr[i].sgn)),
                          ![i].t = t]
    /\ plast' = [ op |-> "raw", dst |-> i, src |-> 0, p |-> t ]
    /\ UNCHANGED << avars, rvars, svars, xvars >>

\* the self-anchored pointer copies the stored integer
CopyValue_Trivial(op, dst, src) ==
    [ s |-> src.s, ok |-> src.ok /\ (src.s = 0 \/ src.addr = dst.addr) ]

\* every self-relative anchor re-encodes on copy
CopyValue_Reencode(op, dst, src) ==
    IF dst.kind \in { "self", "self_reloc" }
    THEN LET t == PtrGet(src.addr, src.s, src.sgn)
         IN  [ s |-> PtrSet(dst.addr, t, dst.sgn),
               ok |-> (t = NULL \/ Fits(dst.addr, t, dst.sgn)) ]
    ELSE [ s |-> src.s, ok |-> src.ok ]

\* the value dst holds after being copy constructed, copy assigned or move
\* constructed from src: the self anchor re-encodes src.get() from dst's
\* address (its copy assignment skips self assignment, and it declares no
\* move constructor); the other two anchors copy the stored integer
CopyValue(op, dst, src) ==
    IF dst.kind = "self"
    THEN IF op = "copy_assign" /\ dst.addr = src.addr
         THEN [ s |-> dst.s, ok |-> dst.ok ]
         ELSE LET t == PtrGet(AnchorBase(src.kind, src.addr, base_),
                              src.s, src.sgn)
                  b == AnchorBase(dst.kind, dst.addr, base_)
              IN  [ s |-> PtrSet(b, t, dst.sgn),
                    ok |-> (t = NULL \/ Fits(b, t, dst.sgn)) ]
    ELSE [ s |-> src.s,
           ok |-> src.ok /\ (src.s = 0 \/ dst.kind = "segment"
                                       \/ src.addr = dst.addr) ]

CopyOps == { "copy_construct", "copy_assign", "move_construct" }

\* offsets of a base class subobject inside a derived object: the first
\* base (and T inside const T), and a second base
BaseOffsets == { 0, 2 }

\* the value dst holds after offset_ptr<T>(const offset_ptr<U>& src), U* being
\* convertible to T* and the T subobject sitting delta bytes into the U
\* object: the self anchor calls set(other.get()), where the argument is
\* converted from U* to T* (null stays null); the segment and the
\* self-relocation specializations initialise off_plus1_ with
\* other.raw_storage()
ConvertValue(dst, src, delta) ==
    IF dst.kind = "self"
    THEN LET g == PtrGet(AnchorBase(src.kind, src.addr, base_),
                         src.s, src.sgn)
             t == IF g = NULL THEN NULL ELSE U(g + delta)
             b == AnchorBase(dst.kind, dst.addr, base_)
         IN  [ s |-> PtrSet(b, t, dst.sgn),
               ok |-> (t = NULL \/ Fits(b, t, dst.sgn)) ]
    ELSE [ s |-> src.s,
           ok |-> src.ok /\ (src.s = 0 \/ (delta = 0 /\
                                (dst.kind = "segment"
                                    \/ src.addr = dst.addr))) ]

\* offset_ptr<T, Anchor, OffsetT> p_i = p_j, p_j an offset pointer to U of
\* the same anchor and offset type
Convert(i, j, delta) ==
    /\ i # j
    /\ ptr[i].kind = ptr[j].kind
    /\ ptr[i].sgn = ptr[j].sgn
    /\ LET v == ConvertValue(ptr[i], ptr[j], delta) IN
       ptr' = [ptr EXCEPT ![i].s = v.s, ![i].ok = v.ok,
                          ![i].t = IF ptr[j].t = NULL THEN NULL
                                   ELSE U(ptr[j].t + delta)]
    /\ plast' = [ op |-> "convert", dst |-> i, src |-> j, p |-> NULL ]
    /\ UNCHANGED << avars, rvars, svars, xvars >>

\* equality decided on the stored integers
PtrEq_Raw(a, b) == a.s = b.s

\* operator==(const offset_ptr&, const offset_ptr&): the decoded addresses
\* compared as const void*
PtrEq(a, b) == Get(a) = Get(b)

\* operator==(const offset_ptr&, std::nullptr_t) and its mirror image
PtrEqNull(a) == Get(a) = NULL

\* offset_ptr(const offset_ptr&), operator=(const offset_ptr&),
\* offset_ptr(offset_ptr&&); only assignment can name the object itself
Copy(op, i, j) ==
    /\ op = "copy_assign" \/ i # j
    /\ LET v == CopyValue(op, ptr[i], ptr[j]) IN
       ptr' = [ptr EXCEPT ![i].s = v.s, ![i].ok = v.ok, ![i].t = ptr[j].t]
    /\ plast' = [ op |-> op, dst |-> i, src |-> j, p |-> NULL ]
    /\ UNCHANGED << avars, rvars, svars, xvars >>

\* ------------------------------------------------------ linear_allocator
\* element types used with allocate<T> / make_handle<T>: <<sizeof, alignof>>
Types  == { <<2, 2>>, <<4, 4>>, <<3, 1>> }
Counts == { 0, 1, 2, Word \div 2 }

\* byte values: as found at construction, written by make_handle's
\* placement new, and zero
Poison == 1
Object == 2

\* the handle type of the arena: segment anchored, unsigned OffsetT
HandleSigned == FALSE
HandleFns == { "alloc_handle", "allocate_handle", "make_handle" }

\* alignment taken on the offset inside the arena, not on the address
AlignedAddr_Offset(addr, alignment) ==
    LET off == U(addr - arena_addr_)
        rem == off % alignment
    IN  IF rem = 0 THEN addr ELSE U(addr + (alignment - rem))

\* alloc's alignment computation on an absolute address
AlignedAddr(addr, alignment) ==
    LET pow2 == BitAnd(alignment, U(alignment - 1)) = 0 IN
    IF pow2
    THEN LET mask == U(alignment - 1) IN BitAnd(U(addr + mask), BitNot(mask))
    ELSE LET a   == alignment
             rem == addr % a
         IN  IF rem = 0 THEN addr ELSE U(addr + (a - rem))

\* the next cursor computed from the unaligned cursor
AllocTry_NoPad(cur, n, align) ==
    LET alignment     == IF align = 0 THEN 1 ELSE align
        addr          == U(arena_addr_ + cur)
        aligned_addr  == AlignedAddr(addr, alignment)
        aligned_off_u == U(aligned_addr - arena_addr_)
        fail          == [ ok |-> FALSE, off |-> 0, next |-> 0 ]
    IN  IF cur > capacity_ THEN fail
        ELSE IF aligned_off_u > capacity_ THEN fail
        ELSE IF n > capacity_ - aligned_off_u THEN fail
        ELSE [ ok |-> TRUE, off |-> aligned_off_u, next |-> U(cur + n) ]

\* the capacity check off by one: an exact fit is refused
AllocTry_Strict(cur, n, align) ==
    LET alignment     == IF align = 0 THEN 1 ELSE align
        addr          == U(arena_addr_ + cur)
        aligned_addr  == AlignedAddr(addr, alignment)
        aligned_off_u == U(aligned_addr - arena_addr_)
        fail          == [ ok |-> FALSE, off |-> 0, next |-> 0 ]
    IN  IF cur > capacity_ THEN fail
        ELSE IF aligned_off_u > capacity_ THEN fail
        ELSE IF n >= capacity_ - aligned_off_u THEN fail
        ELSE [ ok |-> TRUE, off |-> aligned_off_u,
               next |-> U(aligned_off_u + n) ]

\* the capacity test written as a sum on words: aligned_off + n > capacity_
AllocTry_SumCheck(cur, n, align) ==
    LET alignment     == IF align = 0 THEN 1 ELSE align
        addr          == U(arena_addr_ + cur)
        aligned_addr  == AlignedAddr(addr, alignment)
        aligned_off_u == U(aligned_addr - arena_addr_)
        fail          == [ ok |-> FALSE, off |-> 0, next |-> 0 ]
    IN  IF cur > capacity_ THEN fail
        ELSE IF aligned_off_u > capacity_ THEN fail
        ELSE IF U(aligned_off_u + n) > capacity_ THEN fail
        ELSE [ ok |-> TRUE, off |-> aligned_off_u,
               next |-> U(aligned_off_u + n) ]

\* one pass through the body of alloc's loop up to the compare-exchange:
\* either a null return (ok = FALSE) or the offset and the next cursor
AllocTry(cur, n, align) ==
    LET alignment     == IF align = 0 THEN 1 ELSE align
        addr          == U(arena_addr_ + cur)
        aligned_addr  == AlignedAddr(addr, alignment)
        aligned_off_u == U(aligned_addr - arena_addr_)
        fail          == [ ok |-> FALSE, off |-> 0, next |-> 0 ]
    IN  IF cur > capacity_ THEN fail
        ELSE IF aligned_off_u > capacity_ THEN fail
        ELSE IF n > capacity_ - aligned_off_u THEN fail
        ELSE [ ok |-> TRUE, off |-> aligned_off_u,
               next |-> U(aligned_off_u + n) ]

\* a plain store in place of the compare-exchange
CasSucceeds_Blind(cur) == TRUE

\* the exchange also made when the cursor lies below cur
CasSucceeds_Below(cur) == cursor_ <= cur

\* a compare-exchange that never succeeds
CasSucceeds_Never(cur) == FALSE

\* the exchange also made when the cursor has moved past cur
CasSucceeds_Stale(cur) == cursor_ >= cur

\* cursor_.compare_exchange_weak(cur, next): whether the exchange happens
CasSucceeds(cur) == cursor_ = cur

\* the handle's offset measured from the arena start
HandleOf_Arena(fn, p) ==
    IF fn \in HandleFns THEN PtrSet(arena_addr_, p, HandleSigned) ELSE 0

\* what the entry point fn hands back for alloc's result p: the stored
\* value of the handle it builds (0 for the raw-pointer entry points)
HandleOf(fn, p) ==
    IF fn \in HandleFns THEN PtrSet(base_, p, HandleSigned) ELSE 0

\* a call of fn returns p; the cursor is c before and c2 after
Returned(fn, n, al, cur, p, c, c2) ==
    last' = [ fn |-> fn, n |-> n, al |-> al, cur |-> cur,
              ret |-> p, h |-> HandleOf(fn, p), used |-> c2, before |-> c ]

\* alloc(n, alignment) up to the first load of the cursor
CallAlloc(t, fn, n, alignment) ==
    /\ pc[t] = "idle"
    /\ ops < MaxOps
    /\ ops' = ops + 1
    /\ IF n = 0
       THEN /\ Returned(fn, n, alignment, 0, NULL, cursor_, cursor_)
            /\ UNCHANGED << pc, fn_, n_, al_, cur_ >>
       ELSE /\ pc'  = [pc  EXCEPT ![t] = "loop"]
            /\ fn_' = [fn_ EXCEPT ![t] = fn]
            /\ n_'  = [n_  EXCEPT ![t] = n]
            /\ al_' = [al_ EXCEPT ![t] = alignment]
            /\ cur_' = [cur_ EXCEPT ![t] = cursor_]
            /\ UNCHANGED last
    /\ UNCHANGED << pvars, rvars, svars, arg, base_B, first, rmres, nap, base_,
                    arena_addr_, capacity_, cursor_, mem, rpc, u_, hist,
                    rewound >>

Alloc(t, n, alignment) ==
    CallAlloc(t, "alloc", n, alignment) /\ UNCHANGED << areq, nulls >>

AllocHandle(t, n, alignment) ==
    CallAlloc(t, "alloc_handle", n, alignment) /\ UNCHANGED << areq, nulls >>

\* sizeof(T) * count taken without the overflow test
CallAllocate_Wrap(t, fn, T, count) ==
    CallAlloc(t, fn, U(T[1] * count), T[2])

\* allocate<T>(count) as called by fn
CallAllocate(t, fn, T, count) ==
    IF count = 0 \/ count > (Word - 1) \div T[1]
    THEN /\ pc[t] = "idle"
         /\ ops < MaxOps
         /\ ops' = ops + 1
         /\ Returned(fn, 0, T[2], 0, NULL, cursor_, cursor_)
         /\ UNCHANGED << pvars, rvars, svars, arg, base_B, first, rmres, nap,
                         base_, arena_addr_, capacity_, cursor_, mem, pc,
                         fn_, n_, al_, cur_, rpc, u_, hist, rewound >>
    ELSE CallAlloc(t, fn, U(T[1] * count), T[2])

Allocate(t, T, count) ==
    /\ CallAllocate(t, "allocate", T, count)
    /\ areq' = [ T |-> T, count |-> count ]
    /\ UNCHANGED nulls

AllocateHandle(t, T, count) ==
    CallAllocate(t, "allocate_handle", T, count) /\ UNCHANGED << areq, nulls >>

MakeHandle(t, T) ==
    CallAlloc(t, "make_handle", T[1], T[2]) /\ UNCHANGED << areq, nulls >>

\* bytes lo .. lo+len-1 of the arena set to v
MemSet(m, lo, len, v) ==
    [ o \in DOMAIN m |-> IF lo <= o /\ o < lo + len THEN v ELSE m[o] ]

Idle(t) ==
    /\ pc'  = [pc  EXCEPT ![t] = "idle"]
    /\ fn_' = [fn_ EXCEPT ![t] = "none"]
    /\ n_'  = [n_  EXCEPT ![t] = 0]
    /\ al_' = [al_ EXCEPT ![t] = 0]
    /\ cur_' = [cur_ EXCEPT ![t] = 0]

\* one iteration of alloc's loop: the bounds checks and the
\* compare_exchange_weak on the cursor.  A spurious failure of the weak
\* compare-exchange reloads the value cur already holds and changes nothing.
AllocPass(t) ==
    /\ pc[t] = "loop"
    /\ LET r == AllocTry(cur_[t], n_[t], al_[t]) IN
       IF ~r.ok
       THEN /\ Returned(fn_[t], n_[t], al_[t], cur_[t], NULL,
                        cursor_, cursor_)
            /\ Idle(t)
            /\ UNCHANGED << cursor_, mem, hist >>
       ELSE IF CasSucceeds(cur_[t])
       THEN /\ cursor_' = r.next
            /\ hist' = Append(hist, [ off |-> r.off, n |-> n_[t],
                                      al |-> al_[t], t |-> t ])
            /\ mem' = IF fn_[t] = "make_handle"
                      THEN MemSet(mem, r.off, n_[t], Object)
                      ELSE mem
            /\ Returned(fn_[t], n_[t], al_[t], cur_[t],
                        U(arena_addr_ + r.off), cursor_, r.next)
            /\ Idle(t)
       ELSE /\ cur_' = [cur_ EXCEPT ![t] = cursor_]
            /\ UNCHANGED << cursor_, mem, hist, last, pc, fn_, n_, al_ >>
    /\ UNCHANGED << pvars, rvars, svars, arg, base_B, first, rmres, nap, areq, base_, arena_addr_, capacity_, rpc, u_, ops, rewound >>

\* the cursor advanced before the bounds are checked
AllocLoop_Bump(t) ==
    /\ pc[t] = "loop"
    /\ LET r == AllocTry(cur_[t], n_[t], al_[t]) IN
       IF ~r.ok
       THEN /\ cursor_' = IF cursor_ < capacity_ THEN cursor_ + 1
                                                 ELSE cursor_
            /\ Returned(fn_[t], n_[t], al_[t], cur_[t], NULL,
                        cursor_, cursor_')
            /\ Idle(t)
            /\ UNCHANGED << mem, hist >>
       ELSE IF CasSucceeds(cur_[t])
       THEN /\ cursor_' = r.next
            /\ hist' = Append(hist, [ off |-> r.off, n |-> n_[t],
                                      al |-> al_[t], t |-> t ])
            /\ mem' = IF fn_[t] = "make_handle"
                      THEN MemSet(mem, r.off, n_[t], Object)
                      ELSE mem
            /\ Returned(fn_[t], n_[t], al_[t], cur_[t],
                        U(arena_addr_ + r.off), cursor_, r.next)
            /\ Idle(t)
       ELSE /\ cur_' = [cur_ EXCEPT ![t] = cursor_]
            /\ UNCHANGED << cursor_, mem, hist, last, pc, fn_, n_, al_ >>
    /\ UNCHANGED << pvars, rvars, svars, xvars, base_, arena_addr_, capacity_, rpc, u_, ops, rewound >>

\* alloc's loop as the allocating threads run it
AllocLoop(t) == AllocPass(t) /\ UNCHANGED nulls

\* alloc(n, alignment), every null result noted with its request
AllocNoted(t, n, alignment) ==
    /\ CallAlloc(t, "alloc", n, alignment)
    /\ nulls' = IF n = 0 THEN nulls \cup { << n, alignment, cursor_ >> }
                ELSE nulls
    /\ UNCHANGED areq

AllocLoopNoted(t) ==
    /\ AllocPass(t)
    /\ nulls' = IF pc'[t] = "idle" /\ last'.ret = NULL
                THEN nulls \cup { << n_[t], al_[t], cursor_ >> }
                ELSE nulls

\* a deallocate that gives the block back when it is the newest one
Deallocate_Pop(p, n) ==
    /\ cursor_' = IF U(p - arena_addr_) + n = cursor_
                  THEN U(p - arena_addr_) ELSE cursor_
    /\ last' = [ NoCall EXCEPT !.fn = "deallocate", !.n = n,
                               !.used = cursor_', !.before = cursor_ ]
    /\ UNCHANGED << pvars, rvars, svars, xvars, base_, arena_addr_,
                    capacity_, mem, pc, fn_, n_, al_, cur_, rpc, u_, hist,
                    ops, rewound >>

\* stl_allocator<T>::deallocate(p, n): an empty body
Deallocate(p, n) ==
    /\ last' = [ NoCall EXCEPT !.fn = "deallocate", !.n = n,
                               !.used = cursor_, !.before = cursor_ ]
    /\ UNCHANGED << pvars, rvars, svars, xvars, base_, arena_addr_,
                    capacity_, cursor_, mem, pc, fn_, n_, al_, cur_, rpc,
                    u_, hist, ops, rewound >>

\* a reset that keeps the cursor
Reset_Keep ==
    /\ cursor_' = cursor_
    /\ hist' = << >>
    /\ ops' = 0
    /\ last' = [ NoCall EXCEPT !.fn = "reset", !.before = cursor_ ]
    /\ rewound' = TRUE
    /\ UNCHANGED << pvars, rvars, svars, xvars, base_, arena_addr_, capacity_, mem, pc, fn_, n_, al_,
                    cur_, rpc, u_ >>

\* reset()
Reset ==
    /\ cursor_' = 0
    /\ hist' = << >>
    /\ ops' = 0
    /\ last' = [ NoCall EXCEPT !.fn = "reset", !.before = cursor_ ]
    /\ rewound' = TRUE
    /\ UNCHANGED << pvars, rvars, svars, xvars, base_, arena_addr_, capacity_, mem, pc, fn_, n_, al_,
                    cur_, rpc, u_ >>

\* secure_reset(): u = used()
SecureResetLoad ==
    /\ rpc = "idle"
    /\ u_' = cursor_
    /\ rpc' = "memset"
    /\ UNCHANGED << pvars, rvars, svars, xvars, base_, arena_addr_, capacity_, cursor_, mem, pc, fn_,
                    n_, al_, cur_, hist, last, ops, rewound >>

\* the whole arena scrubbed, not only the used prefix
SecureResetMemset_All ==
    /\ rpc = "memset"
    /\ mem' = MemSet(mem, 0, capacity_, 0)
    /\ rpc' = "store"
    /\ UNCHANGED << pvars, rvars, svars, xvars, base_, arena_addr_, capacity_, cursor_, pc, fn_, n_,
                    al_, cur_, u_, hist, last, ops, rewound >>

\* secure_reset(): if (u) memset(arena_, 0, u)
SecureResetMemset ==
    /\ rpc = "memset"
    /\ mem' = IF u_ # 0 THEN MemSet(mem, 0, u_, 0) ELSE mem
    /\ rpc' = "store"
    /\ UNCHANGED << pvars, rvars, svars, xvars, base_, arena_addr_, capacity_, cursor_, pc, fn_, n_,
                    al_, cur_, u_, hist, last, ops, rewound >>

\* secure_reset(): cursor_.store(0)
SecureResetStore ==
    /\ rpc = "store"
    /\ cursor_' = 0
    /\ rpc' = "idle"
    /\ u_' = 0
    /\ hist' = << >>
    /\ ops' = 0
    /\ last' = [ NoCall EXCEPT !.fn = "secure_reset", !.before = u_ ]
    /\ rewound' = TRUE
    /\ UNCHANGED << pvars, rvars, svars, xvars, base_, arena_addr_, capacity_, mem, pc, fn_, n_, al_,
                    cur_ >>

\* ------------------------------------------- regions of linked nodes
\* byte regions a block of nodes may live in (region_a, region_b, ...)
RegionHome  == 8
RegionBases == { RegionHome, 24 }

\* sizeof(Node): the distance between the next fields of adjacent nodes
Stride == 2

Nodes == 0 .. RegN - 1

\* the offset a next field was encoded for when it was last assigned a raw
\* pointer (directly or through the pointer it was copied from): none
NoGoal == [ set |-> FALSE, d |-> 0 ]

\* no region is in use
NoRegion == [ kind |-> "none", sgn |-> FALSE, base |-> 0,
              cell |-> [ c \in Nodes |-> 0 ],
              goal |-> [ c \in Nodes |-> NoGoal ] ]

\* no mapping of a segment is in use, no vector has been made
NoView == [ cur |-> 0, maps |-> {} ]
NoVec  == [ made |-> FALSE, h |-> 0, arena |-> NULL, data |-> NULL,
            cap |-> 0, elems |-> << >> ]

\* the parts of the state a specification does not use
NoPeer     == reg = NoRegion /\ view = NoView /\ vec = NoVec
NoSegments == plat = "none" /\ name = 0 /\ objs = << >> /\ sp = << >>

\* no name was handed to a segment constructor, the second tag is unbound,
\* one arena only
NoArg   == [ s |-> << >>, mode |-> "none", req |-> 0, verdict |-> "none" ]
NoFirst == [ alive |-> FALSE ]
NoRm    == [ calls |-> 0, ret |-> FALSE ]
NoReq   == [ T |-> << 1, 1 >>, count |-> 0 ]
NoNap   == [ attempt |-> 0, ns |-> 0 ]
NoExtra ==
    /\ arg = NoArg
    /\ base_B = NULL
    /\ first = NoFirst
    /\ rmres = NoRm
    /\ areq = NoReq
    /\ nulls = {}
    /\ nap = NoNap

\* linear_allocator(segment_base, arena_start, arena_size) over poisoned
\* bytes; linear_allocator(start, size) is the case segment_base = start
Construct(segment_base, arena_start, arena_size) ==
    /\ base_ = segment_base
    /\ arena_addr_ = arena_start
    /\ capacity_ = arena_size
    /\ cursor_ = 0
    /\ mem = [ o \in 0 .. arena_size - 1 |-> Poison ]
    /\ pc  = [ t \in Threads |-> "idle" ]
    /\ fn_ = [ t \in Threads |-> "none" ]
    /\ n_  = [ t \in Threads |-> 0 ]
    /\ al_ = [ t \in Threads |-> 0 ]
    /\ cur_ = [ t \in Threads |-> 0 ]
    /\ rpc = "idle"
    /\ u_ = 0
    /\ hist = << >>
    /\ last = NoCall
    /\ ops = 0
    /\ rewound = FALSE

\* an arena is constructed; the offset_ptr objects are default constructed
InitArena ==
    /\ \E lay \in ArenaLayouts : Construct(lay[1], lay[2], MaxCap)
    /\ ptr = [ i \in PtrIds |-> DefaultPtr("segment", FALSE, PtrHome[i]) ]
    /\ plast = NoOp
    /\ NoPeer
    /\ NoSegments
    /\ NoExtra

\* offset pointers of one type at two addresses; the tag is bound by an
\* arena constructed on the segment
InitPtr ==
    /\ Construct(8, 8, MaxCap)
    /\ \E k \in Kinds, sgn \in BOOLEAN :
       \E a \in PtrAddrs[1], b \in PtrAddrs[2] :
          ptr = << DefaultPtr(k, sgn, a), DefaultPtr(k, sgn, b) >>
    /\ plast = NoOp
    /\ NoPeer
    /\ NoSegments
    /\ NoExtra

NextPtr ==
    \/ \E i \in PtrIds : AssignNull(i)
    \/ \E i \in PtrIds, t \in Targets : AssignRaw(i, t)
    \/ \E op \in CopyOps, i, j \in PtrIds : Copy(op, i, j)

SpecPtr == InitPtr /\ [][NextPtr]_vars

\* offset_ptr::set(p) in a debug build (SHM_OFFSET_PTR_DEBUG): whether one
\* of the SHM_ASSERTs of set and of narrow_checked fails
SetAsserts(b, p, sgn) ==
    /\ p # NULL
    /\ LET diff == ToSigned(U(ToSigned(U(p)) - ToSigned(U(b))))
           v    == diff + 1
       IN  IF sgn
           THEN \/ diff = -1
                \/ v < -(OffMod \div 2)
                \/ v > OffMod \div 2 - 1
           ELSE \/ diff < 0
                \/ v < 0
                \/ v > OffMod - 1

\* raw pointers at the edges of what an offset can hold: one below each
\* base, a whole offset range above a base, and far targets
WrapTargets == { NULL, 3, 7, 19, 23, 27 }

\* pointers are given targets they cannot encode
NextWrap ==
    \/ \E i \in PtrIds : AssignNull(i)
    \/ \E i \in PtrIds, t \in WrapTargets : AssignRaw(i, t)

SpecWrap == InitPtr /\ [][NextWrap]_vars

\* two offset pointers of any two types (anchor and offset signedness) at
\* two addresses
InitEq ==
    /\ Construct(8, 8, MaxCap)
    /\ \E k1, k2 \in Kinds, s1, s2 \in BOOLEAN :
       \E a \in PtrAddrs[1], b \in PtrAddrs[2] :
          ptr = << DefaultPtr(k1, s1, a), DefaultPtr(k2, s2, b) >>
    /\ plast = NoOp
    /\ NoPeer
    /\ NoSegments
    /\ NoExtra

\* pointers of different types are only assigned and compared
NextEq ==
    \/ \E i \in PtrIds : AssignNull(i)
    \/ \E i \in PtrIds, t \in Targets : AssignRaw(i, t)

SpecEq == InitEq /\ [][NextEq]_vars

\* raw pointers to derived objects near the pointers and the tag base
ConvTargets == { NULL, 6, 8 }

\* two offset pointers of one anchor (self or segment) and offset type, the
\* tag bound below the targets
InitConv ==
    /\ Construct(4, 4, MaxCap)
    /\ \E k \in { "self", "segment" }, sgn \in BOOLEAN :
          ptr = << DefaultPtr(k, sgn, PtrHome[1]), DefaultPtr(k, sgn, PtrHome[2]) >>
    /\ plast = NoOp
    /\ NoPeer
    /\ NoSegments
    /\ NoExtra

NextConv ==
    \/ \E i \in PtrIds : AssignNull(i)
    \/ \E i \in PtrIds, t \in ConvTargets : AssignRaw(i, t)
    \/ \E i, j \in PtrIds, delta \in BaseOffsets : Convert(i, j, delta)

SpecConv == InitConv /\ [][NextConv]_vars

\* concurrent allocation on a fresh arena, no reset
NextMT ==
    \/ \E t \in Threads, n \in SizesMT, a \in AlignsMT : Alloc(t, n, a)
    \/ \E t \in Threads : AllocLoop(t)

SpecMT == InitArena /\ [][NextMT]_vars

\* no call is in progress
Quiet == rpc = "idle" /\ \A t \in Threads : pc[t] = "idle"

\* one thread, every call runs to completion before the next one starts
NextSeq ==
    \/ \E n \in Sizes, a \in Aligns : Quiet /\ Alloc(1, n, a)
    \/ AllocLoop(1)
    \/ Quiet /\ Reset

SpecSeq == InitArena /\ [][NextSeq]_vars

\* ------------------------------------------------------- tags and arenas
\* the tags: 1 is the tag whose cell is base_, 2 the tag whose cell is base_B
Tags == { 1, 2 }

\* segment_base<Tag>::get()
SegmentBaseGet(tag) == IF tag = 1 THEN base_ ELSE base_B

\* one cell shared by all tags
SegmentBaseSet_Shared(tag, b) == << b, b >>

\* a cell that keeps its first binding
SegmentBaseSet_Once(tag, b) ==
    IF tag = 1 THEN << IF base_ = NULL THEN b ELSE base_, base_B >>
               ELSE << base_, IF base_B = NULL THEN b ELSE base_B >>

\* segment_base<Tag>::set(b): the cells of the two tags after the call
SegmentBaseSet(tag, b) ==
    IF tag = 1 THEN << b, base_B >> ELSE << base_, b >>

\* the tagged operations are noted in plast with the tag in dst, the number
\* of constructor arguments in src and the base handed over in p
SetBase(tag, b) ==
    /\ LET c == SegmentBaseSet(tag, b) IN base_' = c[1] /\ base_B' = c[2]
    /\ plast' = [ op |-> "set", dst |-> tag, src |-> 0, p |-> b ]
    /\ UNCHANGED << arena_addr_, capacity_, cursor_, mem, pc, fn_, n_, al_,
                    cur_, rpc, u_, hist, last, ops, rewound, ptr, rvars,
                    svars, arg, first, rmres, nap, areq, nulls >>

\* segment::bind<Tag>() on a segment object whose base_ is m
Bind(tag, m) ==
    /\ LET c == IF m # NULL THEN SegmentBaseSet(tag, m)
                            ELSE << base_, base_B >>
       IN  base_' = c[1] /\ base_B' = c[2]
    /\ plast' = [ op |-> "bind", dst |-> tag, src |-> 0, p |-> m ]
    /\ UNCHANGED << arena_addr_, capacity_, cursor_, mem, pc, fn_, n_, al_,
                    cur_, rpc, u_, hist, last, ops, rewound, ptr, rvars,
                    svars, arg, first, rmres, nap, areq, nulls >>

\* linear_allocator(segment_base, arena_start, arena_size) of the tag of
\* base_ while an arena of that tag exists (nargs = 3), or
\* linear_allocator(start, size) (nargs = 2).  The arena variables describe
\* the new arena from here on; first keeps the base the tag had, the handle
\* and the block of the earlier arena's latest call.
ConstructArena(nargs, segment_base, arena_start, arena_size) ==
    /\ Quiet
    /\ nargs = 2 => segment_base = arena_start
    /\ LET c == SegmentBaseSet(1, segment_base) IN
          base_' = c[1] /\ base_B' = c[2]
    /\ arena_addr_' = arena_start
    /\ capacity_' = arena_size
    /\ cursor_' = 0
    /\ mem' = [ o \in 0 .. arena_size - 1 |-> Poison ]
    /\ hist' = << >>
    /\ last' = [ NoCall EXCEPT !.fn = "construct" ]
    /\ ops' = 0
    /\ rewound' = FALSE
    /\ first' = [ alive |-> TRUE, base |-> base_, h |-> last.h,
                  blk |-> last.ret ]
    /\ plast' = [ op |-> "arena", dst |-> 1, src |-> nargs,
                  p |-> segment_base ]
    /\ UNCHANGED << pc, fn_, n_, al_, cur_, rpc, u_, ptr, rvars, svars,
                    arg, rmres, nap, areq, nulls >>

\* the tag an offset pointer is anchored to: the first to tag 1, the second
\* to tag 2
TagOf == << 1, 2 >>

\* p.get() of a segment anchored pointer of the given tag
GetTagged(i) == PtrGet(SegmentBaseGet(TagOf[i]), ptr[i].s, ptr[i].sgn)

\* p = raw for a segment anchored pointer of the given tag
AssignTagged(i, t) ==
    LET b == SegmentBaseGet(TagOf[i]) IN
    /\ ptr' = [ptr EXCEPT ![i].s = PtrSet(b, t, ptr[i].sgn),
                          ![i].ok = (t = NULL \/ Fits(b, t, ptr[i].sgn)),
                          ![i].t = t]
    /\ plast' = [ op |-> "raw", dst |-> i, src |-> 0, p |-> t ]
    /\ UNCHANGED << avars, rvars, svars, xvars >>

\* bases handed to set and bind: none, and two segment addresses
TagBases == { NULL, 8, 24 }

\* where a further arena of tag 1 is constructed: on its own segment, or
\* inside the segment at 8
NewArenas == { << 2, 24, 24 >>, << 3, 8, 11 >>, << 2, 8, 8 >> }

TagTargets == { NULL, 9, 26 }

\* two segment anchored pointers, one of each tag; tag 1 is bound by its
\* arena, tag 2 is unbound
InitTags ==
    /\ Construct(8, 8, MaxCap)
    /\ \E sgn \in BOOLEAN :
          ptr = << DefaultPtr("segment", sgn, PtrHome[1]),
                   DefaultPtr("segment", sgn, PtrHome[2]) >>
    /\ plast = NoOp
    /\ NoPeer
    /\ NoSegments
    /\ NoExtra

NextTags ==
    \/ \E tag \in Tags, b \in TagBases : SetBase(tag, b)
    \/ \E tag \in Tags, m \in TagBases : Bind(tag, m)
    \/ \E a \in NewArenas : ConstructArena(a[1], a[2], a[3], MaxCap)
    \/ \E i \in PtrIds, t \in TagTargets : AssignTagged(i, t)

SpecTags == InitTags /\ [][NextTags]_vars

\* handles are taken from an arena, then a further arena of the same tag
\* is constructed
NextRebind ==
    \/ \E n \in SizesMT, a \in AlignsMT : Quiet /\ AllocHandle(1, n, a)
    \/ AllocLoop(1)
    \/ \E a \in NewArenas : ConstructArena(a[1], a[2], a[3], MaxCap)

SpecRebind == InitArena /\ [][NextRebind]_vars

\* ------------------------------------------------ the size poll's backoff
\* for (attempt = 0; attempt < 200; ++attempt)
PollLimit == 200

\* nanosleep_backoff_(attempt): the nanoseconds handed to nanosleep
NanosleepBackoff(attempt) ==
    LET max_ns == 10 * 1000 * 1000
        ns0    == 100 * 1000
        ns1    == IF attempt < 10 THEN ns0 * 2 ^ attempt ELSE ns0
    IN  IF ns1 > max_ns THEN max_ns ELSE ns1

\* one round of the poll loop that finds the size still zero: the sleep
\* of this attempt, then ++attempt
PollSleep ==
    /\ nap.attempt < PollLimit
    /\ nap' = [ attempt |-> nap.attempt + 1,
                ns |-> NanosleepBackoff(nap.attempt) ]
    /\ UNCHANGED << avars, pvars, rvars, svars, arg, base_B, first, rmres,
                    areq, nulls >>

\* an open whose size poll never sees a size
NextBackoff == PollSleep

SpecBackoff == InitArena /\ [][NextBackoff]_vars

\* requests of the contending calls
FairRequests == { << 1, 1 >>, << MaxSize, 4 >> }

\* the threads that call alloc in the fair runs
Contenders == { 1, 2 }

\* two threads contend in alloc while reset is called once; a thread that
\* is inside alloc keeps being scheduled, and a compare_exchange_weak does
\* not fail spuriously for ever
NextFair ==
    \/ \E t \in Contenders, r \in FairRequests : Alloc(t, r[1], r[2])
    \/ \E t \in Contenders : AllocLoop(t)
    \/ ~rewound /\ Reset

SpecFair ==
    /\ InitArena
    /\ [][NextFair]_vars
    /\ \A t \in Contenders : WF_vars(AllocLoop(t))

\* request sizes of the runs that exhaust the arena: none, one byte, a few
\* bytes, the whole capacity
SizesExhaust == { 0, 1, MaxSize, MaxCap }

\* threads allocate until the arena refuses requests; no reset
NextExhaust ==
    \/ \E t \in Threads, n \in SizesExhaust, a \in AlignsMT : AllocNoted(t, n, a)
    \/ \E t \in Threads : AllocLoopNoted(t)

SpecExhaust == InitArena /\ [][NextExhaust]_vars

\* alloc requests of the mixed runs: a byte, an aligned block, and a size
\* that wraps when added to a non-zero offset
MixedRequests == { << 1, 1 >>, << MaxSize, 4 >>, << Word - 1, 1 >> }

\* one thread calls alloc and make_handle, another alloc_handle and
\* allocate, blocks are handed to the adapter's deallocate, and a third
\* thread calls reset or secure_reset once, in every interleaving of their
\* atomic steps
NextMixed ==
    \/ \E r \in MixedRequests : Alloc(1, r[1], r[2])
    \/ MakeHandle(1, << 3, 1 >>)
    \/ AllocHandle(2, MaxCap, 1)
    \/ Allocate(2, << 2, 2 >>, 2)
    \/ \E t \in Threads : AllocLoop(t)
    \/ \E b \in DOMAIN hist :
          Deallocate(U(arena_addr_ + hist[b].off), hist[b].n)
    \/ ~rewound /\ rpc = "idle" /\ Reset
    \/ ~rewound /\ SecureResetLoad
    \/ SecureResetMemset
    \/ SecureResetStore

SpecMixed == InitArena /\ [][NextMixed]_vars

\* one thread using the handle factories and secure_reset
NextHandle ==
    \/ \E n \in SizesMT, a \in AlignsMT : Quiet /\ AllocHandle(1, n, a)
    \/ \E T \in Types, c \in Counts : Quiet /\ AllocateHandle(1, T, c)
    \/ \E T \in Types : Quiet /\ MakeHandle(1, T)
    \/ AllocLoop(1)
    \/ Quiet /\ SecureResetLoad
    \/ SecureResetMemset
    \/ SecureResetStore

SpecHandle == InitArena /\ [][NextHandle]_vars

\* element counts: none, small ones, and counts whose byte size passes the
\* largest word, one of them by a little
AllocateCounts == { 0, 1, 2, Word \div 2, (Word \div 3) + 1 }

\* one thread using allocate<T> and reset
NextAllocate ==
    \/ \E T \in Types, c \in AllocateCounts : Quiet /\ Allocate(1, T, c)
    \/ AllocLoop(1)
    \/ Quiet /\ Reset

SpecAllocate == InitArena /\ [][NextAllocate]_vars

\* ------------------------------------------------ relocation of a region
\* Node{ v, next } objects placed back to back in a byte region; next is an
\* offset pointer of the region's anchor kind

\* the address of node c in the region at base b
NodeAddr(b, c) == U(b + c * Stride)

\* the next field of node c, as an offset_ptr object
NodePtr(c) ==
    [ kind |-> reg.kind, sgn |-> reg.sgn, addr |-> NodeAddr(reg.base, c),
      s |-> reg.cell[c], ok |-> TRUE, t |-> NULL ]

\* whether address a lies in the region at base b
InRegion(a, b) == b <= a /\ a < b + RegN * Stride

\* the node of the region that sits at address a, -1 if there is none
NodeAt(a) ==
    IF \E c \in Nodes : NodeAddr(reg.base, c) = a
    THEN CHOOSE c \in Nodes : NodeAddr(reg.base, c) = a
    ELSE -1

\* n_c->next = n_t.  A segment-anchored field is encoded with the tag bound
\* to the region it lives in.
Link(c, t) ==
    /\ reg.kind = "segment" => base_ = reg.base
    /\ LET b == AnchorBase(reg.kind, NodeAddr(reg.base, c), base_)
           p == NodeAddr(reg.base, t)
       IN  reg' = [reg EXCEPT
                     !.cell[c] = PtrSet(b, p, reg.sgn),
                     !.goal[c] = [ set |-> TRUE, d |-> p - b ]]
    /\ UNCHANGED << avars, pvars, view, vec, svars, xvars >>

\* n_c->next = nullptr
Unlink(c) ==
    /\ reg' = [reg EXCEPT !.cell[c] = 0, !.goal[c] = NoGoal]
    /\ UNCHANGED << avars, pvars, view, vec, svars, xvars >>

\* n_c->next = n_j->next, or n_c->next constructed from n_j->next
CopyLink(op, c, j) ==
    /\ op = "copy_assign" \/ c # j
    /\ reg' = [reg EXCEPT
                 !.cell[c] = CopyValue(op, NodePtr(c), NodePtr(j)).s,
                 !.goal[c] = reg.goal[j]]
    /\ UNCHANGED << avars, pvars, view, vec, svars, xvars >>

\* std::memcpy(region_b, region_a, N): the nodes are looked at in the copy
Memcpy(b) ==
    /\ b # reg.base
    /\ reg' = [reg EXCEPT !.base = b]
    /\ UNCHANGED << avars, pvars, view, vec, svars, xvars >>

\* segment_base<Tag>::set(b)
Rebind(b) ==
    /\ base_' = b
    /\ UNCHANGED << arena_addr_, capacity_, cursor_, mem, pc, fn_, n_, al_,
                    cur_, rpc, u_, hist, last, ops, rewound >>
    /\ UNCHANGED << pvars, reg, view, vec, svars, xvars >>

\* a region of null-linked nodes at the first region base, the tag bound
\* to it
InitReloc ==
    /\ Construct(RegionHome, RegionHome, MaxCap)
    /\ ptr = [ i \in PtrIds |-> DefaultPtr("segment", FALSE, PtrHome[i]) ]
    /\ plast = NoOp
    /\ \E k \in { "segment", "self_reloc" }, sgn \in BOOLEAN :
          reg = [ NoRegion EXCEPT !.kind = k, !.sgn = sgn,
                                  !.base = RegionHome ]
    /\ view = NoView
    /\ vec = NoVec
    /\ NoSegments
    /\ NoExtra

NextReloc ==
    \/ \E c, t \in Nodes : Link(c, t)
    \/ \E c \in Nodes : Unlink(c)
    \/ \E op \in CopyOps, c, j \in Nodes : CopyLink(op, c, j)
    \/ \E b \in RegionBases : Memcpy(b)
    \/ \E b \in RegionBases : Rebind(b)

SpecReloc == InitReloc /\ [][NextReloc]_vars

\* for (cur = n_c; cur; cur = cur->next.get()): the nodes visited, -1 for
\* an address that is no node of the region, at most fuel of them
RECURSIVE Walk(_, _)
Walk(c, fuel) ==
    IF fuel = 0 THEN << >>
    ELSE IF c = -1 THEN << -1 >>
    ELSE LET a == Get(NodePtr(c)) IN
         IF a = NULL THEN << c >>
         ELSE << c >> \o Walk(NodeAt(a), fuel - 1)

\* the nodes the links were set to name, in order
RECURSIVE GoalWalk(_, _)
GoalWalk(c, fuel) ==
    IF fuel = 0 THEN << >>
    ELSE IF ~reg.goal[c].set THEN << c >>
    ELSE << c >> \o GoalWalk(reg.goal[c].d \div Stride, fuel - 1)

\* ------------------------------------- an arena and a vector in a segment
\* The segment is mapped at view.cur in the process that is running; its
\* first HdrSize bytes hold the linear_allocator object, the arena follows.
\* The bytes of the segment (the header fields, mem, vec) are the same in
\* every mapping.

\* sizeof(ShmAllocator), sizeof(ShmVector), sizeof(VecHandle), sizeof(int)
HdrSize  == 2
VecSize  == 2
SlotSize == 1
ElemSize == 1

\* where the creator and its peers map the segment
CreatorBase == 8
PeerBases   == { 24, 40 }

\* values pushed to the vector
ElemValues == { 3, 4 }

SegSize == HdrSize + capacity_

\* whether address a lies in the mapping at base b
InMapping(a, b) == b <= a /\ a < b + SegSize

\* only the used prefix owned
Owns_Used(p) == p >= arena_addr_ /\ p < U(arena_addr_ + cursor_)

\* linear_allocator::owns(p)
Owns(p) == p >= arena_addr_ /\ p < U(arena_addr_ + capacity_)

\* allocator_traits<stl_allocator<T>>::pointer: stl_allocator declares no
\* pointer type, so the container keeps what allocate() returns, a T*
VecPointer(p) == p

\* vec->data()
VecData == vec.data

\* the value read at address a: the byte of the segment if a lies in the
\* arena part of a live mapping, a fault otherwise
ReadAt(a) ==
    IF \E b \in view.maps : InMapping(a, b) /\ a >= b + HdrSize
    THEN LET b == CHOOSE b \in view.maps : InMapping(a, b)
         IN  mem[a - b - HdrSize]
    ELSE -1

\* (*vec)[0 .. size()-1]
VecRead == [ i \in 1 .. Len(vec.elems) |-> ReadAt(U(VecData + (i - 1) * ElemSize)) ]

\* the bytes lo.. set to the values of the sequence q
MemPut(m, lo, q) ==
    [ o \in DOMAIN m |-> IF lo <= o /\ o < lo + Len(q) THEN q[o - lo + 1]
                         ELSE m[o] ]

\* alloc(sizeof(VecHandle)) for the slot, then
\* *slot = arena->make_handle<ShmVector>(stl_alloc), by the creator
MakeVector ==
    /\ ~vec.made
    /\ Quiet
    /\ view.cur = CreatorBase
    /\ LET r1 == AllocTry(cursor_, SlotSize, 1) IN
       /\ r1.ok
       /\ LET r2 == AllocTry(r1.next, VecSize, 1) IN
          /\ r2.ok
          /\ cursor_' = r2.next
          /\ mem' = MemSet(mem, r2.off, VecSize, Object)
          /\ vec' = [ NoVec EXCEPT
                        !.made = TRUE,
                        !.h = PtrSet(base_, U(arena_addr_ + r2.off),
                                     HandleSigned),
                        !.arena = view.cur ]
    /\ UNCHANGED << base_, arena_addr_, capacity_, pc, fn_, n_, al_, cur_,
                    rpc, u_, hist, last, ops, rewound >>
    /\ UNCHANGED << pvars, reg, view, svars, xvars >>

\* the vector moves to a buffer of n elements got from
\* stl_allocator::allocate(n); a null alloc throws bad_alloc and the vector
\* stays as it was
Regrow(n, q) ==
    LET r == AllocTry(cursor_, U(ElemSize * n), 1) IN
    IF n > (Word - 1) \div ElemSize \/ ~r.ok
    THEN UNCHANGED << cursor_, mem, vec >>
    ELSE /\ cursor_' = r.next
         /\ mem' = MemPut(mem, r.off, q)
         /\ vec' = [ vec EXCEPT
                       !.data = VecPointer(U(arena_addr_ + r.off)),
                       !.cap = n,
                       !.elems = q ]

\* vec->reserve(n), by the creator
Reserve(n) ==
    /\ vec.made
    /\ Quiet
    /\ view.cur = CreatorBase
    /\ IF n <= vec.cap THEN UNCHANGED << cursor_, mem, vec >>
       ELSE Regrow(n, vec.elems)
    /\ UNCHANGED << base_, arena_addr_, capacity_, pc, fn_, n_, al_, cur_,
                    rpc, u_, hist, last, ops, rewound >>
    /\ UNCHANGED << pvars, reg, view, svars, xvars >>

\* vec->push_back(v), by the creator; a full vector doubles its capacity
PushBack(v) ==
    /\ vec.made
    /\ Quiet
    /\ view.cur = CreatorBase
    /\ IF Len(vec.elems) < vec.cap
       THEN /\ mem' = MemPut(mem, (vec.data - arena_addr_)
                                     + Len(vec.elems) * ElemSize, << v >>)
            /\ vec' = [ vec EXCEPT !.elems = Append(@, v) ]
            /\ UNCHANGED cursor_
       ELSE Regrow(IF vec.cap = 0 THEN 1 ELSE 2 * vec.cap,
                   Append(vec.elems, v))
    /\ UNCHANGED << base_, arena_addr_, capacity_, pc, fn_, n_, al_, cur_,
                    rpc, u_, hist, last, ops, rewound >>
    /\ UNCHANGED << pvars, reg, view, svars, xvars >>

\* a peer maps the segment at q
PeerMap(q) ==
    /\ q \notin view.maps
    /\ view' = [ view EXCEPT !.maps = @ \cup { q } ]
    /\ UNCHANGED << avars, pvars, reg, vec, svars, xvars >>

\* the process that has the segment mapped at q runs, its tag bound to its
\* mapping: segment_base<Tag>::set(q)
Attach(q) ==
    /\ q \in view.maps
    /\ q # view.cur
    /\ Quiet
    /\ base_' = q
    /\ view' = [ view EXCEPT !.cur = q ]
    /\ UNCHANGED << arena_addr_, capacity_, cursor_, mem, pc, fn_, n_, al_,
                    cur_, rpc, u_, hist, last, ops, rewound >>
    /\ UNCHANGED << pvars, reg, vec, svars, xvars >>

\* a process other than the running one destroys its segment object
Unmap(q) ==
    /\ q \in view.maps
    /\ q # view.cur
    /\ view' = [ view EXCEPT !.maps = @ \ { q } ]
    /\ UNCHANGED << avars, pvars, reg, vec, svars, xvars >>

\* the creator maps the segment and constructs the arena header at its base
InitPeer ==
    /\ Construct(CreatorBase, CreatorBase + HdrSize, MaxCap)
    /\ ptr = [ i \in PtrIds |-> DefaultPtr("segment", FALSE, PtrHome[i]) ]
    /\ plast = NoOp
    /\ reg = NoRegion
    /\ view = [ cur |-> CreatorBase, maps |-> { CreatorBase } ]
    /\ vec = NoVec
    /\ NoSegments
    /\ NoExtra

NextPeer ==
    \/ MakeVector
    \/ \E n \in 1 .. MaxSize : Reserve(n)
    \/ \E v \in ElemValues : PushBack(v)
    \/ \E q \in PeerBases : PeerMap(q)
    \/ \E q \in PeerBases \cup { CreatorBase } : Attach(q)
    \/ \E q \in PeerBases \cup { CreatorBase } : Unmap(q)
    \/ \E n \in SizesMT : Quiet /\ Alloc(1, n, 1)
    \/ AllocLoop(1)

SpecPeer == InitPeer /\ [][NextPeer]_vars

\* ------------------------------------------------------ the named segment
\* One name of the OS namespace.  name is the object bound to it (0: the
\* name is absent), objs the objects ever created (an unlinked object lives
\* on for the processes that hold it), sp[p] the segment object of process
\* p and the position of its constructor.  Of an object: size is st_size
\* (POSIX) or the maximum size of the section (WIN32), fill is "zero" until
\* a process stores into the bytes, want is the size its creator asked for.

SegProcs == { 1, 2 }
Platforms == { "posix", "win32" }
Modes == { "create_only", "open_only", "open_or_create" }

\* requested sizes, in bytes
SegSizes == { 0, 1, 2 }

\* sysconf(_SC_PAGESIZE) / dwPageSize
PageSize == 2

\* round_up_(x, a)
RoundUp(x, a) ==
    IF a = 0 THEN x
    ELSE IF x % a = 0 THEN x ELSE x + (a - (x % a))

\* the members before the constructor body runs
IdleProc ==
    [ pc |-> "idle", mode |-> "none", req |-> 0, fd |-> 0,
      created |-> FALSE, attempt |-> 0, size |-> 0, mapped |-> FALSE,
      res |-> "none", err |-> "none" ]

\* may_create: the modes that need size > 0
MayCreate_CreateOnly(mode) == mode = "create_only"

MayCreate(mode) == mode \in { "create_only", "open_or_create" }

\* the constructor throws e; no segment object remains
Thrown(e) == [ IdleProc EXCEPT !.res = "fail", !.err = e ]

\* the constructor returns
Live(r) == [ r EXCEPT !.pc = "live", !.mapped = TRUE, !.res = "ok" ]

NewObj(size, req) == [ size |-> size, fill |-> "zero", want |-> req ]

\* shm_open(name, flags | O_CREAT | O_EXCL): fails with EEXIST when the
\* name is bound; fd 0 of a success stands for a new object
ShmOpenExcl_Shared(nm) == [ ok |-> TRUE, fd |-> nm ]

ShmOpenExcl(nm) ==
    IF nm # 0 THEN [ ok |-> FALSE, fd |-> 0 ] ELSE [ ok |-> TRUE, fd |-> 0 ]

\* the poll loop leaves on st.st_size > 0
SizeKnown_Any(st_size) == TRUE

SizeKnown(st_size) == st_size > 0

\* whether an existing object of the given size serves a request of req
\* bytes: size != 0 && existing < size is the failure
SizeFits(existing, req) == ~ ( req # 0 /\ existing < req )

\* the size an open exposes on WIN32
ExposedOnOpen(max_bytes, req) == IF req = 0 THEN max_bytes ELSE req

\* the name once process p has closed its handle: a WIN32 section dies with
\* its last handle, a POSIX name stays until it is unlinked
Released_Unlink(p) == 0

Released(p) ==
    IF /\ plat = "win32"
       /\ name # 0
       /\ sp[p].fd = name
       /\ \A q \in SegProcs \ { p } : sp[q].fd # name
    THEN 0 ELSE name

SetProc(p, r) == sp' = [ sp EXCEPT ![p] = r ]

\* segment(name, req, mode) on POSIX up to its first shm_open; osok is
\* whether the OS serves the call (a failure other than EEXIST / ENOENT)
PosixCtor(p, mode, req, osok) ==
    /\ plat = "posix"
    /\ sp[p].pc = "idle"
    /\ IF MayCreate(mode) /\ req = 0
       THEN /\ SetProc(p, Thrown("invalid"))
            /\ UNCHANGED << name, objs >>
       ELSE IF mode = "open_only"
       THEN /\ UNCHANGED << name, objs >>
            /\ IF name = 0 THEN SetProc(p, Thrown("absent"))
               ELSE IF ~osok THEN SetProc(p, Thrown("os"))
               ELSE SetProc(p, [ IdleProc EXCEPT !.pc = "stat", !.mode = mode,
                                                 !.req = req, !.fd = name ])
       ELSE LET r == ShmOpenExcl(name) IN
            IF ~osok
            THEN /\ SetProc(p, Thrown("os"))
                 /\ UNCHANGED << name, objs >>
            ELSE IF ~r.ok
            THEN /\ UNCHANGED << name, objs >>
                 /\ IF mode = "create_only"
                    THEN SetProc(p, Thrown("exists"))
                    ELSE SetProc(p, [ IdleProc EXCEPT !.pc = "open2",
                                                      !.mode = mode,
                                                      !.req = req ])
            ELSE IF r.fd # 0
            THEN /\ UNCHANGED << name, objs >>
                 /\ SetProc(p, [ IdleProc EXCEPT !.pc = "trunc", !.mode = mode,
                                                 !.req = req, !.fd = r.fd,
                                                 !.created = TRUE ])
            ELSE /\ Len(objs) < MaxObjs
                 /\ objs' = Append(objs, NewObj(0, req))
                 /\ name' = Len(objs) + 1
                 /\ SetProc(p, [ IdleProc EXCEPT !.pc = "trunc", !.mode = mode,
                                                 !.req = req,
                                                 !.fd = Len(objs) + 1,
                                                 !.created = TRUE ])
    /\ UNCHANGED << avars, pvars, rvars, xvars, plat >>

\* open_or_create after EEXIST: shm_open(name, flags)
ShmOpen2(p, osok) ==
    /\ sp[p].pc = "open2"
    /\ IF name = 0 THEN SetProc(p, Thrown("vanished"))
       ELSE IF ~osok THEN SetProc(p, Thrown("os"))
       ELSE SetProc(p, [ sp[p] EXCEPT !.pc = "stat", !.fd = name ])
    /\ UNCHANGED << avars, pvars, rvars, xvars, plat, name, objs >>

\* a cleanup that always unlinks
FailCtor_Unlink(unlink_if_created, nm) == 0

\* fail_ctor(unlink_if_created): unmap, close, and shm_unlink(name_) when
\* asked to; the binding of the name afterwards
FailCtor(unlink_if_created, nm) == IF unlink_if_created THEN 0 ELSE nm

\* the creator sizes the object: ftruncate(fd_, size); a failure is
\* fail_ctor(true), which unlinks the name
Ftruncate(p, osok) ==
    /\ sp[p].pc = "trunc"
    /\ IF osok
       THEN /\ objs' = [ objs EXCEPT ![sp[p].fd].size = sp[p].req ]
            /\ SetProc(p, [ sp[p] EXCEPT !.pc = "map", !.size = sp[p].req ])
            /\ UNCHANGED name
       ELSE /\ SetProc(p, Thrown("os"))
            /\ name' = FailCtor(TRUE, name)
            /\ UNCHANGED objs
    /\ UNCHANGED << avars, pvars, rvars, xvars, plat >>

\* a poll loop without a cap
PollAgain_Forever(attempt) == TRUE

\* ++attempt, attempt < 200: whether another round follows the round that
\* found the size zero
PollAgain(attempt) == attempt + 1 < PollCap

\* one round of the poll loop of an open: fstat, leave on a known size,
\* give up after PollCap rounds; then the check against the requested size
Fstat(p, osok) ==
    /\ sp[p].pc = "stat"
    /\ LET st_size == objs[sp[p].fd].size IN
       IF ~osok THEN SetProc(p, Thrown("os"))
       ELSE IF SizeKnown(st_size)
       THEN IF SizeFits(st_size, sp[p].req)
            THEN SetProc(p, [ sp[p] EXCEPT !.pc = "map", !.size = st_size ])
            ELSE SetProc(p, Thrown("small"))
       ELSE IF PollAgain(sp[p].attempt)
       THEN SetProc(p, [ sp[p] EXCEPT !.attempt = @ + 1 ])
       ELSE SetProc(p, Thrown("unsized"))
    /\ UNCHANGED << avars, pvars, rvars, xvars, plat, name, objs >>

\* mmap of the object; a failure is fail_ctor(created_)
Mmap(p, osok) ==
    /\ plat = "posix"
    /\ sp[p].pc = "map"
    /\ IF osok
       THEN /\ IF sp[p].created
               THEN SetProc(p, [ sp[p] EXCEPT !.pc = "zero", !.mapped = TRUE ])
               ELSE SetProc(p, Live(sp[p]))
            /\ UNCHANGED name
       ELSE /\ SetProc(p, Thrown("os"))
            /\ name' = FailCtor(sp[p].created, name)
    /\ UNCHANGED << avars, pvars, rvars, xvars, plat, objs >>

\* the creator zeroes the exposed range: memset(base_, 0, size_)
Memset(p) ==
    /\ sp[p].pc = "zero"
    /\ objs' = [ objs EXCEPT ![sp[p].fd].fill = "zero" ]
    /\ SetProc(p, Live(sp[p]))
    /\ UNCHANGED << avars, pvars, rvars, xvars, plat, name >>

\* segment(name, req, mode) on WIN32 up to OpenFileMappingW or
\* CreateFileMappingW
WinCtor(p, mode, req, osok) ==
    /\ plat = "win32"
    /\ sp[p].pc = "idle"
    /\ IF MayCreate(mode) /\ req = 0
       THEN /\ SetProc(p, Thrown("invalid"))
            /\ UNCHANGED << name, objs >>
       ELSE IF mode = "open_only"
       THEN /\ UNCHANGED << name, objs >>
            /\ IF name = 0 THEN SetProc(p, Thrown("absent"))
               ELSE IF ~osok THEN SetProc(p, Thrown("os"))
               ELSE SetProc(p, [ IdleProc EXCEPT !.pc = "view", !.mode = mode,
                                                 !.req = req, !.fd = name ])
       ELSE IF ~osok
       THEN /\ SetProc(p, Thrown("os"))
            /\ UNCHANGED << name, objs >>
       ELSE IF name # 0
       THEN /\ UNCHANGED << name, objs >>
            /\ SetProc(p, [ IdleProc EXCEPT
                              !.pc = IF mode = "create_only" THEN "exists"
                                     ELSE "view",
                              !.mode = mode, !.req = req, !.fd = name ])
       ELSE /\ Len(objs) < MaxObjs
            /\ objs' = Append(objs, NewObj(RoundUp(req, PageSize), req))
            /\ name' = Len(objs) + 1
            /\ SetProc(p, [ IdleProc EXCEPT !.pc = "view", !.mode = mode,
                                            !.req = req, !.fd = Len(objs) + 1,
                                            !.created = TRUE ])
    /\ UNCHANGED << avars, pvars, rvars, xvars, plat >>

\* create_only found ERROR_ALREADY_EXISTS: the constructor throws and the
\* handle it was given is closed
WinExists(p) ==
    /\ sp[p].pc = "exists"
    /\ SetProc(p, Thrown("exists"))
    /\ name' = Released(p)
    /\ UNCHANGED << avars, pvars, rvars, xvars, plat, objs >>

\* MapViewOfFile, the size query and the size checks on WIN32
WinMap(p, osok) ==
    /\ plat = "win32"
    /\ sp[p].pc = "view"
    /\ LET max_bytes == objs[sp[p].fd].size
           req == sp[p].req IN
       IF ~osok \/ max_bytes = 0
       THEN /\ SetProc(p, Thrown("os"))
            /\ name' = Released(p)
       ELSE IF ~sp[p].created
       THEN IF SizeFits(max_bytes, req)
            THEN /\ SetProc(p, Live([ sp[p] EXCEPT
                                        !.size = ExposedOnOpen(max_bytes, req) ]))
                 /\ UNCHANGED name
            ELSE /\ SetProc(p, Thrown("small"))
                 /\ name' = Released(p)
       ELSE IF req > max_bytes
            THEN /\ SetProc(p, Thrown("small"))
                 /\ name' = Released(p)
            ELSE /\ SetProc(p, [ sp[p] EXCEPT !.pc = "zero", !.mapped = TRUE,
                                              !.size = req ])
                 /\ UNCHANGED name
    /\ UNCHANGED << avars, pvars, rvars, xvars, plat, objs >>

\* a process stores into the bytes of its segment
Store(p) ==
    /\ sp[p].pc = "live"
    /\ objs[sp[p].fd].fill = "zero"
    /\ objs' = [ objs EXCEPT ![sp[p].fd].fill = "data" ]
    /\ UNCHANGED << avars, pvars, rvars, xvars, plat, name, sp >>

\* ~segment(): unmap and close, never unlink
Destroy(p) ==
    /\ sp[p].pc = "live"
    /\ SetProc(p, IdleProc)
    /\ name' = Released(p)
    /\ UNCHANGED << avars, pvars, rvars, xvars, plat, objs >>

\* segment::remove(name): shm_unlink on POSIX, nothing on WIN32
Remove ==
    /\ plat = "posix"
    /\ name # 0
    /\ name' = 0
    /\ UNCHANGED << avars, pvars, rvars, xvars, plat, objs, sp >>

\* what segment::remove(name) returns: on POSIX true when shm_unlink
\* succeeds or fails with ENOENT (the name is absent), true on WIN32
RemoveResult_Strict(pl, nm, osok) == pl = "win32" \/ ( nm # 0 /\ osok )

RemoveResult(pl, nm, osok) == pl = "win32" \/ nm = 0 \/ osok

\* segment::remove(name) with its result kept; calls counts the calls
\* modulo 2
RemoveCall(osok) ==
    /\ rmres' = [ calls |-> (rmres.calls + 1) % 2,
                  ret |-> RemoveResult(plat, name, osok) ]
    /\ name' = IF plat = "posix" /\ osok THEN 0 ELSE name
    /\ UNCHANGED << avars, pvars, rvars, arg, base_B, first, nap, areq, nulls, plat,
                    objs, sp >>

\* size(), base() != nullptr, is_valid() of the segment object of p
SegSize_(p) == sp[p].size
HasBase(p) == sp[p].mapped
IsValid(p) == sp[p].fd # 0 /\ sp[p].mapped /\ sp[p].size # 0

InitSeg ==
    /\ Construct(8, 8, MaxCap)
    /\ ptr = [ i \in PtrIds |-> DefaultPtr("segment", FALSE, PtrHome[i]) ]
    /\ plast = NoOp
    /\ NoPeer
    /\ plat \in Platforms
    /\ name = 0
    /\ objs = << >>
    /\ sp = [ p \in SegProcs |-> IdleProc ]
    /\ NoExtra

NextSeg ==
    \/ \E p \in SegProcs, mode \in Modes, req \in SegSizes, osok \in BOOLEAN :
          PosixCtor(p, mode, req, osok)
    \/ \E p \in SegProcs, osok \in BOOLEAN : ShmOpen2(p, osok)
    \/ \E p \in SegProcs, osok \in BOOLEAN : Ftruncate(p, osok)
    \/ \E p \in SegProcs, osok \in BOOLEAN : Fstat(p, osok)
    \/ \E p \in SegProcs, osok \in BOOLEAN : Mmap(p, osok)
    \/ \E p \in SegProcs : Memset(p)
    \/ \E p \in SegProcs, mode \in Modes, req \in SegSizes, osok \in BOOLEAN :
          WinCtor(p, mode, req, osok)
    \/ \E p \in SegProcs : WinExists(p)
    \/ \E p \in SegProcs, osok \in BOOLEAN : WinMap(p, osok)
    \/ \E p \in SegProcs : Store(p)
    \/ \E p \in SegProcs : Destroy(p)
    \/ Remove

SpecSeg == InitSeg /\ [][NextSeg]_vars

\* the life of a name: constructors whose OS calls are served, stores,
\* destructors and calls of remove
LifeSizes == { 0, 2 }

NextLife ==
    \/ \E p \in SegProcs, mode \in Modes, req \in LifeSizes :
          PosixCtor(p, mode, req, TRUE)
    \/ \E p \in SegProcs : ShmOpen2(p, TRUE)
    \/ \E p \in SegProcs : Ftruncate(p, TRUE)
    \/ \E p \in SegProcs : Fstat(p, TRUE)
    \/ \E p \in SegProcs : Mmap(p, TRUE)
    \/ \E p \in SegProcs : Memset(p)
    \/ \E p \in SegProcs, mode \in Modes, req \in LifeSizes :
          WinCtor(p, mode, req, TRUE)
    \/ \E p \in SegProcs : WinExists(p)
    \/ \E p \in SegProcs : WinMap(p, TRUE)
    \/ \E p \in SegProcs : Store(p)
    \/ \E p \in SegProcs : Destroy(p)
    \/ \E osok \in BOOLEAN : RemoveCall(osok)

SpecLife == InitSeg /\ [][NextLife]_vars

\* ------------------------------------------------------- segment names
\* A name is the sequence of the bytes of a C string: "/" or another byte.
NameChars == { "/", "a" }

NameStrings == UNION { [ 1 .. n -> NameChars ] : n \in 0 .. MaxNameLen }

\* s.pop_back() while s.size() > 1 && s.back() == '/'
RECURSIVE StripSlashes(_)
StripSlashes(s) ==
    IF Len(s) > 1 /\ s[Len(s)] = "/"
    THEN StripSlashes(SubSeq(s, 1, Len(s) - 1))
    ELSE s

\* detail::seg::normalize_name_(name)
NormalizeName(s) ==
    IF s = << >> THEN << >>
    ELSE StripSlashes(IF s[1] # "/" THEN << "/" >> \o s ELSE s)

\* detail::seg::name_is_portable_(s)
NameIsPortable(s) ==
    /\ s # << >>
    /\ s[1] = "/"
    /\ Len(s) # 1
    /\ \A i \in 2 .. Len(s) : s[i] # "/"

\* what the constructor does with name s before its first OS call:
\* "invalid" is invalid_argument, "syserr" the system_error of
\* win32_object_name_from_portable, "os" that it goes on to the namespace
NameVerdict(pl, s, mode, req) ==
    LET name_ == NormalizeName(s) IN
    IF name_ = << >> THEN "invalid"
    ELSE IF pl = "posix"
    THEN IF ~NameIsPortable(name_) THEN "invalid"
         ELSE IF MayCreate(mode) /\ req = 0 THEN "invalid"
         ELSE "os"
    ELSE IF MayCreate(mode) /\ req = 0 THEN "invalid"
         ELSE IF Len(name_) < 2 \/ name_[1] # "/" THEN "syserr"
         ELSE "os"

\* segment(s, req, mode) up to its first OS call
CheckName(s, mode, req) ==
    /\ arg' = [ s |-> s, mode |-> mode, req |-> req,
                verdict |-> NameVerdict(plat, s, mode, req) ]
    /\ UNCHANGED << avars, pvars, rvars, svars, base_B, first, rmres, nap, areq, nulls >>

InitName ==
    /\ Construct(8, 8, MaxCap)
    /\ ptr = [ i \in PtrIds |-> DefaultPtr("segment", FALSE, PtrHome[i]) ]
    /\ plast = NoOp
    /\ NoPeer
    /\ plat \in Platforms
    /\ name = 0
    /\ objs = << >>
    /\ sp = [ p \in SegProcs |-> IdleProc ]
    /\ NoExtra

NextName ==
    \E s \in NameStrings, mode \in Modes, req \in { 0, 1 } :
        CheckName(s, mode, req)

SpecName == InitName /\ [][NextName]_vars

\* ------------------------------------------------- reference arithmetic
Max(a, b) == IF a >= b THEN a ELSE b

\* the smallest multiple of a that is >= x, over the unbounded integers
AlignUp(x, a) == CHOOSE m \in x .. x + a - 1 : m % a = 0

\* the offset at which a request of alignment al is placed when used() = c
PlaceOff(c, al) == AlignUp(arena_addr_ + c, Max(al, 1)) - arena_addr_

\* a step in which a call returns
ReturnStep ==
    \/ \E t \in Threads : pc[t] = "loop" /\ pc'[t] = "idle"
    \/ ops' = ops + 1 /\ pc' = pc

\* the blocks of I, taken by increasing start, each begin where the
\* previous one ended (c) aligned up, and the last one ends at used()
RECURSIVE ChainFrom(_, _)
ChainFrom(I, c) ==
    IF I = {} THEN c = cursor_
    ELSE LET i == CHOOSE i \in I : \A j \in I : hist[i].off <= hist[j].off
         IN  /\ hist[i].off = PlaceOff(c, hist[i].al)
             /\ ChainFrom(I \ {i}, hist[i].off + hist[i].n)

\* ------------------------------------------------------------------ claims

\* C1: under concurrent alloc calls with no reset, the byte ranges of the
\* successful allocations are pairwise disjoint, lie inside
\* [arena_base, arena_base + capacity), and start at a multiple of
\* max(align, 1).
C1_DisjointInsideAligned ==
    /\ \A i \in 1 .. Len(hist) :
          LET start == arena_addr_ + hist[i].off IN
          /\ arena_addr_ <= start
          /\ start + hist[i].n <= arena_addr_ + capacity_
          /\ start % Max(hist[i].al, 1) = 0
    /\ \A i, j \in 1 .. Len(hist) :
          i < j => \/ hist[i].off + hist[i].n <= hist[j].off
                   \/ hist[j].off + hist[j].n <= hist[i].off

\* two threads were handed blocks, one of them after alignment padding
C1_Witness ==
    /\ Len(hist) >= 2
    /\ \E i, j \in 1 .. Len(hist) :
          /\ hist[i].t # hist[j].t
          /\ hist[j].off > hist[i].off + hist[i].n

\* C2: once all concurrent alloc calls on a fresh arena have completed,
\* the successful allocations sorted by start form a gap-free chain from
\* the aligned arena base, and used() is the end of the last block.
C2_GapFreeChain ==
    (\A t \in Threads : pc[t] = "idle") => ChainFrom(1 .. Len(hist), 0)

\* both threads allocated, with padding, and all calls have returned
C2_Witness ==
    /\ \A t \in Threads : pc[t] = "idle"
    /\ Len(hist) >= 2
    /\ \E i, j \in 1 .. Len(hist) : hist[i].t # hist[j].t
    /\ \E i \in 1 .. Len(hist) : hist[i].al = 4 /\ hist[i].off > 0
    /\ arena_addr_ = 11

\* C3: a successful single-threaded alloc(n, align) issued at used() = c
\* returns the smallest multiple of max(align, 1) that is >= arena_base + c,
\* and leaves used() at that offset plus n.
C3_AlignedAddressAndUsed ==
    (last.fn = "alloc" /\ last.ret # NULL) =>
        LET exp == AlignUp(arena_addr_ + last.before, Max(last.al, 1)) IN
        /\ last.ret = exp
        /\ last.used = (exp - arena_addr_) + last.n
        /\ cursor_ = last.used

\* a non power of two alignment padded an odd address
C3_Witness ==
    /\ last.fn = "alloc"
    /\ last.ret # NULL
    /\ last.al = 3
    /\ last.before > 0
    /\ last.ret > arena_addr_ + last.before

\* C4: alloc returns null exactly when n = 0, or the aligned offset exceeds
\* the capacity, or n exceeds the capacity minus the aligned offset; an
\* exact fit succeeds.
C4_NullIff ==
    last.fn = "alloc" =>
        LET off == PlaceOff(last.before, last.al) IN
        (last.ret = NULL) <=> \/ last.n = 0
                              \/ off > capacity_
                              \/ last.n > capacity_ - off

\* a request that fits exactly was granted after earlier allocations
C4_Witness ==
    /\ last.fn = "alloc"
    /\ last.ret # NULL
    /\ last.before > 0
    /\ last.used = capacity_

\* C5: a call of alloc that returns null leaves used() as it was.
C5_NullKeepsCursor ==
    [][ (ReturnStep /\ last'.fn = "alloc" /\ last'.ret = NULL)
            => cursor_' = cursor_ ]_vars

\* a non-empty request failed on a cursor that another thread had advanced
C5_Witness ==
    /\ last.fn = "alloc"
    /\ last.ret = NULL
    /\ last.n > 0
    /\ last.cur < last.before
    /\ last.used = cursor_

\* C6: after reset() used() is 0 and the arena behaves like a fresh one:
\* alloc(n, 1) with 1 <= n <= capacity returns arena_base, and the blocks
\* handed out since the reset are those a fresh arena hands out for the
\* same requests.
C6_ResetLikeFresh ==
    /\ last.fn = "reset" => cursor_ = 0
    /\ (Quiet /\ rewound) => ChainFrom(1 .. Len(hist), 0)
    /\ ( /\ rewound
         /\ last.fn = "alloc"
         /\ Len(hist) <= 1
         /\ last.before = 0
         /\ last.al = 1
         /\ last.n \in 1 .. capacity_ ) => last.ret = arena_addr_

\* after a reset of a used arena two blocks were handed out again
C6_Witness ==
    /\ rewound
    /\ Quiet
    /\ Len(hist) = 2
    /\ hist[1].off = 0
    /\ hist[2].off > hist[1].n

\* C7: secure_reset() without concurrent operations zeroes the bytes at
\* offsets [0, used()), leaves the bytes above unchanged, and then sets
\* used() to 0.
C7_ScrubPrefix ==
    [][ /\ (rpc = "memset" /\ rpc' = "store") =>
              /\ \A o \in DOMAIN mem :
                    mem'[o] = IF o < cursor_ THEN 0 ELSE mem[o]
              /\ cursor_' = cursor_
        /\ (rpc = "store" /\ rpc' = "idle") =>
              /\ cursor_' = 0
              /\ mem' = mem ]_vars

\* a partly used arena was scrubbed: zero below the old cursor, not above
C7_Witness ==
    /\ last.fn = "secure_reset"
    /\ last.before \in 1 .. capacity_ - 1
    /\ cursor_ = 0
    /\ \A o \in DOMAIN mem : (mem[o] = 0) <=> (o < last.before)

\* C8: a handle returned by alloc_handle, allocate_handle or make_handle
\* decodes to the address alloc reserved; a failed allocation yields a
\* null handle and constructs nothing.
C8_HandleDecodes ==
    [][ (ReturnStep /\ last'.fn \in HandleFns) =>
            IF last'.ret = NULL
            THEN /\ last'.h = 0
                 /\ PtrGet(base_', last'.h, HandleSigned) = NULL
                 /\ mem' = mem
                 /\ hist' = hist
            ELSE /\ PtrGet(base_', last'.h, HandleSigned) = last'.ret
                 /\ Len(hist') = Len(hist) + 1
                 /\ last'.ret = arena_addr_ + hist'[Len(hist')].off
                 /\ last'.h = (last'.ret - base_') + 1 ]_vars

\* make_handle succeeded in an arena that starts inside its segment
C8_Witness ==
    /\ last.fn = "make_handle"
    /\ last.ret # NULL
    /\ arena_addr_ # base_
    /\ PtrGet(base_, last.h, HandleSigned) = last.ret
    /\ \E o \in DOMAIN mem : mem[o] = Object

\* C9 as stated: for every pointer, get() is null exactly when
\* raw_storage() is 0, exactly when the pointer is falsy.
C9_NullIffZero ==
    \A i \in PtrIds :
        /\ (Get(ptr[i]) = NULL) <=> (ptr[i].s = 0)
        /\ (ptr[i].s = 0) <=> ~PtrBool(ptr[i].s)

\* C9: raw_storage() is 0 exactly when the pointer is falsy, and then get()
\* is null; for a pointer whose stored value encodes null or a target that
\* is representable in its offset type from the base it decodes with,
\* get() is null exactly when raw_storage() is 0.
C9_NullIffZeroRepresentable ==
    \A i \in PtrIds :
        /\ (ptr[i].s = 0) <=> ~PtrBool(ptr[i].s)
        /\ (ptr[i].s = 0) => (Get(ptr[i]) = NULL)
        /\ ptr[i].ok => ((Get(ptr[i]) = NULL) <=> (ptr[i].s = 0))

\* a pointer constructed from another offset pointer holds a non-null
\* target, and the source has been set to null since
C9_Witness ==
    /\ plast.op = "null"
    /\ ptr[plast.dst].s = 0
    /\ Get(ptr[plast.dst]) = NULL
    /\ \E j \in PtrIds :
          /\ ptr[j].ok
          /\ ptr[j].s # 0
          /\ Get(ptr[j]) # NULL
          /\ Get(ptr[j]) \in Targets

\* a step in which the self-anchored pointer dst is copy constructed, copy
\* assigned or move constructed from src
SelfCopyStep(dst, src) ==
    /\ plast' # plast
    /\ plast'.op \in CopyOps
    /\ plast'.dst = dst
    /\ plast'.src = src
    /\ ptr[dst].kind = "self"

\* C10 as stated: after a self-anchored p is copied from q, p.get() is
\* q.get() and, q being non-null, p.raw_storage() is q.raw_storage() plus
\* (a_q - a_p); self-assignment leaves p unchanged.
C10_CopyReencodes ==
    [][ \A i, j \in PtrIds : SelfCopyStep(i, j) =>
          IF i = j THEN ptr'[i] = ptr[i]
          ELSE /\ Get(ptr'[i]) = Get(ptr[j])
               /\ Get(ptr[j]) # NULL =>
                     ptr'[i].s = ptr[j].s + (ptr[j].addr - ptr[i].addr)
      ]_vars

\* C10: the same, for a source that is null or whose target is
\* representable from p's address ((q.get() - a_p) + 1 is a non-zero value
\* of the offset type).
C10_CopyReencodesRepresentable ==
    [][ \A i, j \in PtrIds : SelfCopyStep(i, j) =>
          IF i = j THEN ptr'[i] = ptr[i]
          ELSE /\ Get(ptr[j]) = NULL =>
                     ptr'[i].s = 0 /\ Get(ptr'[i]) = NULL
               /\ ( /\ Get(ptr[j]) # NULL
                    /\ Fits(ptr[i].addr, Get(ptr[j]), ptr[i].sgn) ) =>
                     /\ Get(ptr'[i]) = Get(ptr[j])
                     /\ ptr'[i].s = ptr[j].s + (ptr[j].addr - ptr[i].addr)
      ]_vars

\* two self-anchored pointers at different addresses name one target with
\* different stored values after a copy assignment
C10_Witness ==
    /\ plast.op = "copy_assign"
    /\ plast.dst # plast.src
    /\ ptr[plast.dst].kind = "self"
    /\ Get(ptr[plast.dst]) # NULL
    /\ Get(ptr[plast.dst]) = Get(ptr[plast.src])
    /\ ptr[plast.dst].s # ptr[plast.src].s

\* C11: a segment-anchored pointer encoded for target B + d under tag base
\* B keeps its raw_storage() when it is copied, copy-assigned or bit-copied
\* with its region and when the tag is rebound, and get() returns B' + d
\* under the rebound base B'; a chain copied with its region and walked
\* with the tag bound to the copy visits the same nodes in the same order,
\* every decoded address inside the new region.
C11_SegmentRelocation ==
    [][ reg.kind = "segment" =>
          /\ (reg'.base # reg.base \/ base_' # base_) => reg'.cell = reg.cell
          /\ \A c \in Nodes :
                /\ reg.goal[c].set =>
                      /\ reg.cell[c] = reg.goal[c].d + 1
                      /\ Get(NodePtr(c)) = U(base_ + reg.goal[c].d)
                /\ ~reg.goal[c].set =>
                      /\ reg.cell[c] = 0
                      /\ Get(NodePtr(c)) = NULL
          /\ base_ = reg.base =>
                \A c \in Nodes :
                   LET w == Walk(c, RegN + 1) IN
                   /\ w = GoalWalk(c, RegN + 1)
                   /\ \A k \in 1 .. Len(w) :
                         InRegion(NodeAddr(base_, w[k]), base_)
      ]_vars

\* a three node chain is walked in a copy of its region, the region having
\* been bit-copied and the tag rebound to the copy
C11_Witness ==
    /\ reg.kind = "segment"
    /\ base_ = reg.base
    /\ base_ # RegionHome
    /\ \A c \in { 0, 1 } : reg.goal[c].set
    /\ reg.cell[2] = 0
    /\ Walk(0, RegN + 1) = << 0, 1, 2 >>

\* C12: a self_reloc_ptr is copied by copying its stored integer (the
\* integer stays the one its target was encoded to, it is not re-encoded
\* from the new address); when the block holding the pointer and its
\* referent is bit-copied to a place displaced by D, the copy decodes to
\* the old referent address + D, inside the copied block, and a null
\* pointer stays null.
C12_SelfRelocBlockCopy ==
    [][ reg.kind = "self_reloc" =>
          /\ \A c \in Nodes :
                reg.cell[c] = IF reg.goal[c].set
                              THEN Narrow(reg.goal[c].d + 1, reg.sgn)
                              ELSE 0
          /\ reg'.base # reg.base =>
                LET D == reg'.base - reg.base IN
                \A c \in Nodes :
                   /\ reg'.cell[c] = reg.cell[c]
                   /\ reg.cell[c] = 0 => Get(NodePtr(c))' = NULL
                   /\ reg.cell[c] # 0 =>
                         /\ Get(NodePtr(c))' = U(Get(NodePtr(c)) + D)
                         /\ InRegion(Get(NodePtr(c)), reg.base) =>
                               InRegion(Get(NodePtr(c))', reg'.base)
      ]_vars

\* a list with signed self-relocating links was bit-copied: the head of
\* the copy names the second node of the copy, whose link is null, and the
\* third node's link, copied from the head's, names another address
C12_Witness ==
    /\ reg.kind = "self_reloc"
    /\ reg.sgn
    /\ reg.base # RegionHome
    /\ Get(NodePtr(0)) = NodeAddr(reg.base, 1)
    /\ reg.cell[1] = 0
    /\ Get(NodePtr(1)) = NULL
    /\ reg.cell[2] = reg.cell[0]
    /\ Get(NodePtr(2)) # Get(NodePtr(0))

\* C13: two offset pointers compare equal exactly when their get() results
\* are the same address, whatever their stored integers, anchors and offset
\* types, so that pointers holding representable targets are equal exactly
\* when they were given the same target; a pointer compares equal to
\* nullptr exactly when its get() is null.
C13_EqualityByAddress ==
    \A i, j \in PtrIds :
        /\ PtrEq(ptr[i], ptr[j]) <=> (Get(ptr[i]) = Get(ptr[j]))
        /\ (ptr[i].ok /\ ptr[j].ok) =>
              (PtrEq(ptr[i], ptr[j]) <=> (ptr[i].t = ptr[j].t))
        /\ PtrEqNull(ptr[i]) <=> (Get(ptr[i]) = NULL)
        /\ ptr[i].ok => (PtrEqNull(ptr[i]) <=> (ptr[i].t = NULL))

\* two self-anchored pointers at different addresses name one target: they
\* are equal and their stored integers differ
C13_Witness ==
    /\ ptr[1].kind = "self" /\ ptr[2].kind = "self"
    /\ ptr[1].addr # ptr[2].addr
    /\ ptr[1].t # NULL
    /\ ptr[1].t = ptr[2].t
    /\ Get(ptr[1]) = ptr[1].t
    /\ PtrEq(ptr[1], ptr[2])
    /\ ptr[1].s # ptr[2].s
    /\ ~PtrEqNull(ptr[1])

\* C14: an offset pointer converted from an offset pointer to Derived (or
\* to non-const T) of the same anchor and offset type decodes to the
\* source's get() converted as the raw pointer is, also when the Base
\* subobject does not sit at offset 0; null converts to null.
C14_ConversionKeepsReferent ==
    [][ \A i, j \in PtrIds, delta \in BaseOffsets :
          Convert(i, j, delta) =>
             Get(ptr'[i]) = IF Get(ptr[j]) = NULL THEN NULL
                            ELSE U(Get(ptr[j]) + delta)
      ]_vars

\* C15: a vector built through the allocator adapter keeps its data-buffer
\* reference as a segment-anchored offset pointer: once the creating mapping
\* is destroyed and the tag is bound to a second mapping, data() lies inside
\* the second mapping and the vector yields the elements that were pushed.
C15_VectorDataFollowsMapping ==
    ( /\ vec.made
      /\ vec.data # NULL
      /\ view.cur # vec.arena
      /\ vec.arena \notin view.maps
      /\ base_ = view.cur )
    => /\ InMapping(VecData, view.cur)
       /\ VecRead = vec.elems

C18_ModeErrors ==
    [][ \A p \in SegProcs :
          /\ ( sp[p].pc = "idle" /\ sp'[p].mode = "create_only" /\ name # 0 )
                => ( sp'[p].pc = "exists" /\ ~sp'[p].created )
          /\ ( sp[p].pc = "exists" /\ sp'[p] # sp[p] )
                => sp'[p] = Thrown("exists")
          /\ ( sp[p].pc = "idle" /\ sp'[p].mode = "create_only" /\ name = 0 )
                => sp'[p].created
          /\ ( sp[p].pc = "idle" /\ sp'[p].mode = "open_only" )
                => ( name # 0 /\ sp'[p].fd = name /\ ~sp'[p].created )
          /\ ( sp'[p] # sp[p] /\ sp'[p].err = "exists" )
                => /\ name # 0
                   /\ objs' = objs
                   /\ \/ name' = name
                      \/ /\ plat = "win32"
                         /\ \A q \in SegProcs \ { p } : sp[q].fd # name
          /\ ( sp'[p] # sp[p] /\ sp'[p].err = "absent" )
                => ( name = 0 /\ name' = 0 /\ objs' = objs )
      ]_vars

\* one process failed to create the existing name, the other failed to open
\* the name before it existed
C18_Witness ==
    /\ sp[1].err = "exists"
    /\ sp[2].err = "absent"
    /\ name # 0

\* C19: open_or_create creates the segment when the name is absent (created
\* flag set, a new object bound to the name; when the constructor returns
\* its size is the requested one and the range is zero) and opens the
\* existing one when the name is bound (flag clear; no step of that
\* constructor changes an object); no two constructors are the creator of
\* one object.
C19_OpenOrCreate ==
    [][ /\ \A p \in SegProcs :
            /\ ( sp[p].pc = "idle" /\ sp'[p].mode = "open_or_create" /\ name = 0 )
                  => /\ sp'[p].created
                     /\ Len(objs') = Len(objs) + 1
                     /\ sp'[p].fd = Len(objs')
                     /\ name' = Len(objs')
            /\ ( sp[p].pc = "idle" /\ sp'[p].mode = "open_or_create" /\ name # 0 )
                  => /\ ~sp'[p].created
                     /\ objs' = objs
                     /\ name' = name
            /\ ( sp[p].mode = "open_or_create" /\ sp[p].created
                 /\ sp[p].pc # "live" /\ sp'[p].pc = "live" )
                  => /\ SegSize_(p)' = sp[p].req
                     /\ objs'[sp[p].fd].size = IF plat = "posix" THEN sp[p].req
                                               ELSE RoundUp(sp[p].req, PageSize)
                     /\ objs'[sp[p].fd].fill = "zero"
            /\ ( sp[p].mode = "open_or_create" /\ ~sp[p].created
                 /\ sp'[p] # sp[p] /\ ~sp'[p].created )
                  => objs' = objs
        /\ \A p, q \in SegProcs :
              ( p # q /\ sp[p].created /\ sp[q].created ) => sp[p].fd # sp[q].fd
      ]_vars

\* both processes raced open_or_create: one created, the other opened
C19_Witness ==
    /\ sp[1].pc = "live" /\ sp[1].mode = "open_or_create" /\ sp[1].created
    /\ sp[2].pc = "live" /\ sp[2].mode = "open_or_create" /\ ~sp[2].created
    /\ sp[1].fd = sp[2].fd
    /\ objs[sp[1].fd].fill = "zero"

\* C20: an open of an existing segment of size E with requested size R
\* exposes size() == E when R == 0 or R <= E and fails, leaving the segment
\* as it was, only when R > E; a constructed segment has size() >= R, a
\* base and is_valid().
C20_OpenExposesExistingSize ==
    [][ \A p \in SegProcs :
          /\ ( sp[p].pc = "live" /\ ~sp[p].created )
                => SegSize_(p) = objs[sp[p].fd].size
          /\ sp[p].pc = "live"
                => ( SegSize_(p) >= sp[p].req /\ HasBase(p) /\ IsValid(p) )
          /\ ( sp'[p] # sp[p] /\ sp'[p].err = "small" )
                => /\ sp[p].req > objs[sp[p].fd].size
                   /\ objs' = objs
      ]_vars

\* C21: create_only and open_or_create with size 0 raise invalid argument
\* in the first step of the constructor, before any object is created or
\* opened, also when the name is bound; open_only with size 0 on an
\* existing segment adopts the size of the object.
C21_ZeroSize ==
    [][ \A p \in SegProcs :
          /\ ( sp[p].pc = "idle"
               /\ sp'[p].mode \in { "create_only", "open_or_create" } )
                => sp'[p].req # 0
          /\ ( sp'[p] # sp[p] /\ sp'[p].err = "invalid" )
                => /\ sp[p].pc = "idle"
                   /\ sp[p].fd = 0
                   /\ name' = name
                   /\ objs' = objs
          /\ ( sp'[p].pc = "live" /\ sp'[p].mode = "open_only" /\ sp'[p].req = 0 )
                => /\ SegSize_(p)' = objs'[sp'[p].fd].size
                   /\ SegSize_(p)' # 0
      ]_vars

\* a create mode with size 0 failed on a bound name while the other process
\* had opened the segment with size 0
C21_Witness ==
    /\ sp[1].err = "invalid"
    /\ name # 0
    /\ sp[2].pc = "live" /\ sp[2].mode = "open_only" /\ sp[2].req = 0
    /\ SegSize_(2) = 2

\* C22: the segment constructor goes on to the OS namespace only with a
\* name in the portable form, a leading '/' followed by one or more bytes
\* none of which is '/'; an empty name, a bare '/' and a name with a '/'
\* after its first byte are rejected with invalid argument.
C22_OnlyPortableNames ==
    arg.verdict # "none" =>
        /\ arg.verdict = "os" => NameIsPortable(arg.s)
        /\ ( \/ arg.s = << >>
             \/ arg.s = << "/" >>
             \/ \E i \in 2 .. Len(arg.s) : arg.s[i] = "/" )
              => arg.verdict = "invalid"

\* C23 as stated: destroying a segment object never unlinks its name, so
\* the name stays bound, with its bytes, until remove(name) is called.
C23_DestroyKeepsName ==
    [][ \A p \in SegProcs :
          ( sp[p].pc = "live" /\ sp'[p].pc = "idle" )
             => ( name' = name /\ objs' = objs )
      ]_vars

\* C23: on POSIX destroying a segment object leaves the name bound to the
\* same object with the bytes that were stored, and the name goes only by a
\* call of remove; a WIN32 section goes with the destruction of its last
\* holder and not before.  remove returns success when it unlinks the name
\* and when the name is absent, changes no object and no segment object,
\* and is a no-op returning success on WIN32.
C23_NameOutlivesSegmentObject ==
    [][ /\ \A p \in SegProcs :
            ( sp[p].pc = "live" /\ sp'[p].pc = "idle" )
               => /\ objs' = objs
                  /\ plat = "posix" => name' = name
                  /\ plat = "win32" =>
                        name' = IF \E q \in SegProcs \ { p } : sp[q].fd = name
                                THEN name ELSE 0
        /\ ( plat = "posix" /\ name # 0 /\ name' = 0 )
              => rmres'.calls # rmres.calls
        /\ rmres'.calls # rmres.calls
              => /\ objs' = objs /\ sp' = sp
                 /\ name = 0 => ( rmres'.ret /\ name' = 0 )
                 /\ ( name # 0 /\ name' = 0 ) => rmres'.ret
                 /\ plat = "win32" => ( rmres'.ret /\ name' = name )
      ]_vars

\* the creator is destroyed, the name was opened afterwards and shows the
\* stored bytes; remove was called twice and the name is gone
C23_Witness ==
    /\ plat = "posix"
    /\ sp[1] = IdleProc
    /\ sp[2].pc = "live" /\ ~sp[2].created
    /\ objs[sp[2].fd].fill = "data"
    /\ rmres.calls = 0 /\ rmres # NoRm
    /\ name = 0

\* C24: allocate<T>(count) returns null and leaves used() as it is when
\* count is 0 or count * sizeof(T) passes the largest size_t; otherwise it
\* returns what alloc(count * sizeof(T), alignof(T)) returns and moves the
\* cursor as that call does.
C24_AllocateChecksOverflow ==
    [][ ( ReturnStep /\ last'.fn = "allocate" ) =>
          LET size  == areq'.T[1]
              align == areq'.T[2]
              count == areq'.count
              bytes == size * count
              off   == PlaceOff(cursor_, align)
          IN  IF count = 0 \/ bytes > Word - 1
              THEN last'.ret = NULL /\ cursor_' = cursor_
              ELSE IF off + bytes <= capacity_
              THEN /\ last'.ret = arena_addr_ + off
                   /\ cursor_' = off + bytes
              ELSE last'.ret = NULL /\ cursor_' = cursor_
      ]_vars

\* an allocate whose byte count wraps to a size that would fit returned
\* null, and an ordinary one returned a block
C24_Witness ==
    /\ last.fn = "allocate"
    /\ areq.count = (Word \div 3) + 1
    /\ areq.T = << 3, 1 >>
    /\ last.ret = NULL
    /\ cursor_ = 2
    /\ ops = 2

\* C25: for every anchor kind, a pointer constructed or assigned from a
\* non-null raw pointer t whose (t - base) + 1 is a non-zero value of the
\* offset type stores (t - base) + 1 and returns t from get(); for an
\* unsigned offset type these targets lie at or above the base, and the
\* target base - 1 is never one of them.
C25_EncodeDecodeIdentity ==
    \A i \in PtrIds :
        LET b == AnchorBase(ptr[i].kind, ptr[i].addr, base_)
            t == plast.p
            e == (t - b) + 1
        IN  ( /\ plast.op = "raw"
              /\ plast.dst = i
              /\ t # NULL
              /\ e # 0
              /\ IF ptr[i].sgn THEN -(OffMod \div 2) <= e /\ e < OffMod \div 2
                               ELSE 0 < e /\ e < OffMod )
            => /\ Get(ptr[i]) = t
               /\ ptr[i].s = e
               /\ ~ptr[i].sgn => t >= b
               /\ t # b - 1

\* a signed segment-anchored pointer holds a target below the tag base
C25_Witness ==
    \E i \in PtrIds :
        /\ plast.op = "raw" /\ plast.dst = i
        /\ ptr[i].kind = "segment" /\ ptr[i].sgn
        /\ plast.p # NULL /\ plast.p < base_
        /\ Get(ptr[i]) = plast.p
        /\ ptr[i].s < 0

\* C16: the allocator header stored in the segment is position-independent:
\* a peer that maps the segment at another address and calls alloc or owns
\* through the stored header gets and tests addresses of its own mapping.
C16_HeaderPositionIndependent ==
    [][ view.cur # CreatorBase =>
          /\ ( last' # last /\ last'.fn = "alloc" /\ last'.ret # NULL )
                => InMapping(last'.ret, view.cur)
          /\ \A o \in 0 .. capacity_ - 1 : Owns(view.cur + HdrSize + o)
          /\ \A a \in 0 .. Word - 1 : Owns(a) => InMapping(a, view.cur)
      ]_vars

\* C26 as stated: without a reset, once alloc(n, a) has returned null every
\* later alloc(n', a) with n' >= n returns null, whatever the other
\* threads allocate in between; the requests of zero bytes are included.
C26_NullIsStable ==
    ( last.fn = "alloc" /\ last.ret # NULL )
        => \A f \in nulls : ~( f[2] = last.al /\ f[1] <= last.n )

\* C26: without a reset, once alloc(n, a) with n > 0 has returned null
\* every later alloc(n', a) with n' >= n returns null, whatever the other
\* threads allocate in between.
C26_ExhaustionIsStable ==
    ( last.fn = "alloc" /\ last.ret # NULL )
        => \A f \in nulls : ~( f[1] > 0 /\ f[2] = last.al /\ f[1] <= last.n )

\* a request is refused, another thread's allocation moves the cursor, and
\* the request is refused again
C26_Witness ==
    /\ last.fn = "alloc" /\ last.ret = NULL /\ last.n > 0
    /\ \E f \in nulls : /\ f[1] = last.n /\ f[2] = last.al
                        /\ f[3] < last.before
    /\ Len(hist) > 0
    /\ hist[Len(hist)].t # 1
    /\ last.before < capacity_

\* C27: in every interleaving of alloc, alloc_handle, allocate,
\* make_handle, reset and secure_reset, 0 <= used() <= capacity(), and the
\* next cursor value of a successful call is the aligned offset plus n as
\* integers, which is at most the capacity.
C27_CursorWithinCapacity ==
    /\ 0 <= cursor_ /\ cursor_ <= capacity_
    /\ ( last.fn \in { "alloc", "alloc_handle", "allocate", "make_handle" }
         /\ last.ret # NULL )
       => LET off == last.ret - arena_addr_ IN
          /\ 0 <= off
          /\ off + last.n <= capacity_
          /\ last.used = off + last.n

\* a block is handed out after a reset while the other thread is inside
\* alloc, and a request whose size wraps when added to the offset is refused
C27_Witness ==
    /\ rewound
    /\ last.fn = "alloc" /\ last.n = Word - 1 /\ last.ret = NULL
    /\ last.before > 0
    /\ \E t \in Threads : pc[t] = "loop"

\* C28: used() never decreases except through reset() or secure_reset():
\* no step of an allocating call, successful or failed, and no
\* deallocate(p, n) of the adapter lowers the cursor or lets a block that
\* was handed out be handed out again, and capacity() and the arena base
\* never change.
C28_UsedOnlyGrows ==
    [][ /\ cursor_' < cursor_
           => /\ last'.fn \in { "reset", "secure_reset" }
              /\ cursor_' = 0
        /\ last'.fn = "deallocate"
           => /\ cursor_' = cursor_
              /\ hist' = hist
        /\ \A i, j \in DOMAIN hist' :
              i < j => hist'[i].off + hist'[i].n <= hist'[j].off
        /\ capacity_' = capacity_
        /\ arena_addr_' = arena_addr_
      ]_vars

\* the newest block has been handed to deallocate while a thread is inside
\* alloc, and used() still counts it
C28_Witness ==
    /\ last.fn = "deallocate"
    /\ Len(hist) >= 1
    /\ last.n = hist[Len(hist)].n
    /\ cursor_ = hist[Len(hist)].off + hist[Len(hist)].n
    /\ last.used = cursor_
    /\ \E t \in Threads : pc[t] = "loop"
    /\ ~rewound

\* C29: setting or rebinding the base cell of one tag, by
\* segment_base<A>::set, segment::bind<A> or the construction of an arena of
\* tag A, leaves the cell of the other tag unchanged, and the pointer
\* anchored to the other tag decodes to the same address before and after.
C29_TagsIndependent ==
    [][ /\ ( plast'.op \in { "set", "bind", "arena" } /\ plast'.dst = 1 )
           => /\ base_B' = base_B
              /\ PtrGet(base_B', ptr'[2].s, ptr'[2].sgn)
                    = PtrGet(base_B, ptr[2].s, ptr[2].sgn)
        /\ ( plast'.op \in { "set", "bind" } /\ plast'.dst = 2 )
           => /\ base_' = base_
              /\ PtrGet(base_', ptr'[1].s, ptr'[1].sgn)
                    = PtrGet(base_, ptr[1].s, ptr[1].sgn)
      ]_vars

\* tag 1 has just been rebound by a new arena while the pointer of tag 2
\* holds a target against another base, and still decodes to it
C29_Witness ==
    /\ plast.op = "arena" /\ plast.dst = 1
    /\ first.alive /\ first.base # base_
    /\ base_B # NULL /\ base_B # base_ /\ base_B # first.base
    /\ ptr[2].s # 0 /\ ptr[2].ok
    /\ PtrGet(base_B, ptr[2].s, ptr[2].sgn) = ptr[2].t

\* C30: constructing a linear_allocator of tag T stores its segment_base
\* argument in T's base cell (the arena start for the two-argument
\* constructor) and the new arena has used() == 0; a handle issued by the
\* earlier arena then decodes against the new base, and when the bases
\* differ it no longer names its block.
C30_LatestArenaBinds ==
    /\ last.fn = "construct"
       => /\ plast.op = "arena"
          /\ base_ = plast.p
          /\ plast.src = 2 => base_ = arena_addr_
          /\ cursor_ = 0
    /\ ( first.alive /\ first.h # 0 )
       => LET e == IF first.h = 0 THEN 0 ELSE first.h - 1
              q == ( base_ + e ) % Word
          IN  /\ first.blk = ( first.base + e ) % Word
              /\ PtrGet(base_, first.h, HandleSigned) = q
              /\ base_ # first.base => q # first.blk
              /\ base_ = plast.p

\* a second arena has been constructed on another base with the
\* two-argument constructor; the handle of the first arena's block decodes
\* to another address
C30_Witness ==
    /\ last.fn = "construct"
    /\ plast.op = "arena" /\ plast.src = 2
    /\ first.alive /\ first.h # 0
    /\ first.base # base_
    /\ cursor_ = 0
    /\ PtrGet(base_, first.h, HandleSigned) # first.blk
    /\ PtrGet(first.base, first.h, HandleSigned) = first.blk

\* C31: alloc is lock-free: a call goes round its loop again only after a
\* compare-and-swap that failed because the cursor no longer held the value
\* read, every change of the cursor other than a reset completes a call, and
\* with finitely many allocations and resets every call eventually returns.
C31_LockFree ==
    [][ /\ \A t \in Contenders :
             ( pc[t] = "loop" /\ pc'[t] = "loop" /\ cur_'[t] # cur_[t] )
                => /\ cursor_ # cur_[t]
                   /\ cur_'[t] = cursor_
                   /\ cursor_' = cursor_
        /\ ( cursor_' # cursor_ /\ last'.fn # "reset" )
             => \E t \in Contenders : pc[t] = "loop" /\ pc'[t] = "idle"
      ]_vars
    /\ \A t \in Contenders : ( pc[t] = "loop" ) ~> ( pc[t] = "idle" )

\* a call holds a cursor value that a reset and another thread's
\* allocation have since replaced: its compare-and-swap is going to fail
C31_Witness ==
    /\ rewound
    /\ \E t \in Threads :
          /\ pc[t] = "loop"
          /\ cur_[t] # cursor_
          /\ AllocTry(cur_[t], n_[t], al_[t]).ok
    /\ Len(hist) > 0

\* C32: the sleep of size-poll attempt k (k = 0, 1, 2, ...) is
\* min(100 microseconds * 2^k, 10 milliseconds): it never decreases from one
\* attempt to the next and stays at 10 milliseconds once it got there.
C32_BackoffDoublesToCap ==
    [][ LET k == nap.attempt IN
        /\ nap'.ns = IF k >= 7 THEN 10000000 ELSE 100000 * 2 ^ k
        /\ k > 0 => nap'.ns >= nap.ns
        /\ ( k > 0 /\ nap.ns = 10000000 ) => nap'.ns = 10000000
      ]_vars

\* C33: the size poll of an open terminates: it leaves the loop at the
\* first poll that reports a non-zero size, every other round counts towards
\* the cap, and after the last round the constructor fails, releases its
\* descriptor and leaves the name bound.
C33_PollTerminates ==
    [][ \A p \in SegProcs :
          ( sp[p].pc = "stat" /\ sp'[p] # sp[p] )
          => LET st_size == objs[sp[p].fd].size IN
             /\ sp[p].attempt < PollCap
             /\ sp'[p].pc = "stat"
                => /\ st_size = 0
                   /\ sp'[p].attempt = sp[p].attempt + 1
                   /\ sp'[p].attempt < PollCap
             /\ st_size > 0 => sp'[p].pc # "stat"
             /\ sp'[p].err = "unsized"
                => /\ st_size = 0
                   /\ sp[p].attempt + 1 = PollCap
                   /\ sp'[p].res = "fail"
                   /\ sp'[p].fd = 0
                   /\ ~sp'[p].mapped
                   /\ name' = name
                   /\ objs' = objs
      ]_vars

\* an open gave up on an object its creator has not sized yet; the name is
\* still bound and the creator is still in its constructor
C33_Witness ==
    \E p, q \in SegProcs :
        /\ sp[p].err = "unsized"
        /\ sp[p].fd = 0
        /\ name # 0
        /\ sp[q].pc = "trunc" /\ sp[q].fd = name
        /\ objs[name].size = 0

\* C34: when construction fails after the name was created or opened, the
\* constructor ends unmapped, with its descriptor closed and an error; on
\* POSIX the name is unlinked exactly when this constructor call created
\* it, and on both platforms a failing open leaves the name of every
\* segment a peer holds bound.
C34_FailureCleanup ==
    [][ \A p \in SegProcs :
          ( /\ sp[p].pc \in { "trunc", "stat", "map", "view", "exists" }
            /\ sp'[p].res = "fail" )
          => /\ sp'[p].pc = "idle"
             /\ sp'[p].fd = 0
             /\ ~sp'[p].mapped
             /\ sp'[p].err \in { "os", "small", "unsized", "exists" }
             /\ objs' = objs
             /\ plat = "posix"
                => name' = IF sp[p].created THEN 0 ELSE name
             /\ ~sp[p].created
                => \A q \in SegProcs \ { p } :
                      ( name # 0 /\ sp[q].fd = name ) => name' = name
      ]_vars

\* an open has failed on the size conflict while a peer's segment of the
\* same name is alive: the name is still bound to the peer's object
C34_Witness ==
    /\ plat = "posix"
    /\ name # 0
    /\ \E p, q \in SegProcs :
          /\ sp[p].err = "small" /\ sp[p].fd = 0
          /\ sp[q].pc = "live" /\ sp[q].fd = name /\ sp[q].created

\* C35: in a non-debug build a non-null target whose (target - base) + 1
\* is not a value of the w-bit offset type is stored reduced modulo 2^w;
\* get() then returns another address, and null when the reduced value is
\* 0.  In a debug build that encoding trips an assertion, and so do a
\* signed difference of -1 and a negative difference with an unsigned
\* offset type.
C35_WrappedEncoding ==
    \A i \in PtrIds :
        LET b    == AnchorBase(ptr[i].kind, ptr[i].addr, base_)
            t    == plast.p
            diff == t - b
            e    == diff + 1
            fits == IF ptr[i].sgn
                    THEN -(OffMod \div 2) <= e /\ e < OffMod \div 2
                    ELSE 0 <= e /\ e < OffMod
        IN  ( plast.op = "raw" /\ plast.dst = i /\ t # NULL )
            => /\ ~fits
                  => /\ ( ptr[i].s - e ) % OffMod = 0
                     /\ Get(ptr[i]) # t
                     /\ e % OffMod = 0 => Get(ptr[i]) = NULL
                     /\ SetAsserts(b, t, ptr[i].sgn)
               /\ ( ptr[i].sgn /\ diff = -1 ) => SetAsserts(b, t, TRUE)
               /\ ( ~ptr[i].sgn /\ diff < 0 ) => SetAsserts(b, t, FALSE)

\* a target a whole offset range above the base was stored as 0 and the
\* pointer reads as null
C35_Witness ==
    \E i \in PtrIds :
        /\ plast.op = "raw" /\ plast.dst = i
        /\ plast.p # NULL
        /\ plast.p - AnchorBase(ptr[i].kind, ptr[i].addr, base_) + 1 = OffMod
        /\ ptr[i].s = 0
        /\ Get(ptr[i]) = NULL

\* C36: owns(p) is true exactly for arena_base <= p < arena_base +
\* capacity: every byte of every block handed out is owned, the address one
\* past the end, the addresses below the arena and null are not, whatever
\* the cursor is and whether or not a reset has happened.
C36_OwnsIsTheArenaRange ==
    /\ \A a \in 0 .. Word - 1 :
          Owns(a) <=> ( arena_addr_ <= a /\ a < arena_addr_ + capacity_ )
    /\ \A b \in DOMAIN hist :
          \A o \in hist[b].off .. hist[b].off + hist[b].n - 1 :
             Owns(arena_addr_ + o)
    /\ ( last.fn \in { "alloc", "alloc_handle", "allocate", "make_handle" }
         /\ last.ret # NULL )
       => \A o \in 0 .. last.n - 1 : Owns(last.ret + o)
    /\ ~Owns(arena_addr_ + capacity_)
    /\ ~Owns(NULL)
    /\ \A a \in 0 .. arena_addr_ - 1 : ~Owns(a)

\* after a reset, with the cursor below a block handed out earlier whose
\* bytes are still owned
C36_Witness ==
    /\ rewound
    /\ last.fn = "alloc" /\ last.ret # NULL
    /\ cursor_ = last.used
    /\ cursor_ < capacity_
    /\ Owns(arena_addr_ + capacity_ - 1)
    /\ ~Owns(arena_addr_ + capacity_)

\* C37: with reset() running concurrently, a call of alloc succeeds only
\* on a step at which the cursor holds exactly the value the call read, so
\* its block is computed from the cursor of that moment; the blocks handed
\* out since the reset are pairwise non-overlapping and within capacity.
C37_ResetKeepsBlocksApart ==
    [][ \A t \in Threads :
          ( pc[t] = "loop" /\ pc'[t] = "idle" /\ last'.ret # NULL )
          => LET off == last'.ret - arena_addr_ IN
             /\ cursor_ = cur_[t]
             /\ cursor_ <= off
             /\ off + n_[t] <= capacity_
             /\ cursor_' = off + n_[t]
             /\ Len(hist') = Len(hist) + 1
             /\ \A i, j \in DOMAIN hist' :
                   i < j => hist'[i].off + hist'[i].n <= hist'[j].off
             /\ \A i \in DOMAIN hist' :
                   hist'[i].off + hist'[i].n <= capacity_
      ]_vars

\* two blocks were handed out since the reset although only one call has
\* started since: a call that was inside alloc during the reset succeeded
C37_Witness ==
    /\ rewound
    /\ ops = 1
    /\ Len(hist) = 2
    /\ hist[1].t # hist[2].t
    /\ last.ret # NULL
    /\ rpc = "idle"

\* C38: secure_reset() is atomic with respect to concurrent alloc calls:
\* when it stores the cursor, every byte of every block handed out before
\* that store, the blocks handed out after it read used() included, has
\* been zeroed.
C38_SecureResetScrubsAll ==
    [][ ( rpc = "store" /\ rpc' = "idle" )
        => \A b \in DOMAIN hist :
              \A o \in hist[b].off .. hist[b].off + hist[b].n - 1 :
                 mem'[o] = 0
      ]_vars

\* C39: the creator's zeroing of a new segment never destroys a peer's
\* data: when the creating constructor zeroes the exposed range, no process
\* that opened the name has stored into the bytes yet.
C39_ZeroingSparesPeerData ==
    [][ \A p \in SegProcs :
          ( sp[p].pc = "zero" /\ sp'[p].pc = "live" )
          => objs[sp[p].fd].fill # "data"
      ]_vars

TypeOK ==
    /\ cursor_ \in 0 .. capacity_
    /\ \A t \in Threads : pc[t] \in { "idle", "loop" }

====
